---------------------------- MODULE Spec2Model ----------------------------
(***************************************************************************)
(* Model of the HEDIS measure rule engine: the leaf condition evaluator,   *)
(* the reference matcher, the group aggregator, the recursive rule tree    *)
(* evaluator, evaluateRules over arrays and over the LazyCSVLoader, and    *)
(* the workflow chain executor with the component handler that runs it.    *)
(*                                                                         *)
(* Cell values are JavaScript strings, modelled as sequences of one-       *)
(* character strings so that trim, toLowerCase, parseFloat, the date       *)
(* regular expressions and the code-unit ordering are computed rather than *)
(* assumed.  The alphabet of the modelled cells is digits, space, "-",     *)
(* "/", and a few letters; it has no ".", no exponent and no "T", so       *)
(* parseFloat is the parse of an optionally signed integer prefix.         *)
(* Aggregates and percentages are exact rationals; floating-point rounding *)
(* is not modelled.                                                        *)
(*                                                                         *)
(* Four specifications share the variables, each leaving the others'       *)
(* variables at rest:                                                      *)
(*   SpecCondition  evaluateCondition applied to one row                   *)
(*   SpecRuleGroup  evaluateRuleGroup applied to one row of a dataset      *)
(*   SpecEval       evaluateRules on a loader and on the array of its rows *)
(*   Spec           handleExecuteChain running executeWorkflowChain        *)
(***************************************************************************)
EXTENDS Integers, Sequences, FiniteSets, TLC

VARIABLES
    hostWestOfUTC,   \* the host's time zone lies west of UTC (Date getters are local)
    condRow,         \* evaluateCondition: the row argument
    condProto,       \* evaluateCondition: column, value, value2 of the condition
    condResults,     \* evaluateCondition: operator -> result, for the calls made so far
    condSwapped,     \* evaluateCondition: operator -> result with value and value2 exchanged
    rgData,          \* evaluateRuleGroup: the dataset (allData)
    rgRow,           \* evaluateRuleGroup: the row argument, a row of the dataset
    rgRules,         \* evaluateRuleGroup: the RuleGroup argument
    rgCalls,         \* evaluateRuleGroup: call -> [result, memo], for the calls made so far
    evLoader,        \* evaluateRules: the LazyCSVLoader holding the dataset
    evRules,         \* evaluateRules: the RuleGroup argument
    evOut,           \* evaluateRules: path -> [result, memo, caches], for the calls made
    chChain,         \* executeWorkflowChain: chain.workflows, the steps
    chInitialData,   \* executeWorkflowChain: initialData, [rows, allRows]
    chCaches,        \* the caches of the loader initialData.allRows may be
    chPc,            \* executeWorkflowChain: "loop", "finish", "returned", "thrown", "done"
    chI,             \* executeWorkflowChain: the loop index i
    chCurrentData,   \* executeWorkflowChain: currentData
    chStepResults,   \* executeWorkflowChain: stepResults
    chLog,           \* the onProgress, workflows.find and evaluateRules calls made, in order
    chOutcome,       \* the settled promise: the ChainExecutionResult or the Error
    uiState,         \* handleExecuteChain: what the component received and showed
    rfData,          \* evaluateReferenceCondition: the rows it is applied to
    rfCondition,     \* evaluateReferenceCondition: the condition, its type left open
    rfResults,       \* evaluateReferenceCondition: type -> the result for each row
    gcData,          \* evaluateGroupCondition: the dataset
    gcCondition,     \* evaluateGroupCondition: the condition
    gcMatching,      \* withinDistinct -> the set evaluateGroupCondition returned
    gcPassed,        \* action -> each row's verdict under the group condition
    gcDistinct,      \* withinDistinct -> group key -> calculateDistinctCount
    aiParsed,        \* generateRules: JSON.parse(cleanedText), the model's answer
    aiRules,         \* generateRules: the RuleGroup it returned, None before it returns
    aiOutcome,       \* row -> what evaluating the returned RuleGroup on the row did
    lzLoader,        \* concurrent evaluations: the dataset both are called on
    lzCaches,        \* the caches inside that dataset's LazyCSVLoader
    lzEval,          \* evaluation -> its path, rules, position and local variables
    lzRunning,       \* the evaluation that holds the thread, 0 between macrotasks
    lzOverlap        \* an evaluation was called while another had not returned

condVars == <<condRow, condProto, condResults, condSwapped>>
rgVars == <<rgData, rgRow, rgRules, rgCalls>>
evVars == <<evLoader, evRules, evOut>>
chVars == <<chChain, chInitialData, chCaches, chPc, chI, chCurrentData, chStepResults,
            chLog, chOutcome, uiState>>
rfVars == <<rfData, rfCondition, rfResults>>
gcVars == <<gcData, gcCondition, gcMatching, gcPassed, gcDistinct>>
aiVars == <<aiParsed, aiRules, aiOutcome>>
lzVars == <<lzLoader, lzCaches, lzEval, lzRunning, lzOverlap>>
vars == <<hostWestOfUTC, condVars, rgVars, evVars, chVars, rfVars, gcVars, aiVars, lzVars>>

-----------------------------------------------------------------------------
(* JavaScript values and strings *)

\* const x = v; followed by Body(x): v is computed once
Const(v, Body(_)) == CHOOSE out \in {Body(x) : x \in {v}} : TRUE

\* row[column] of a column the row does not have (also stands for null)
Undefined == <<"undefined">>

Digits == {"0", "1", "2", "3", "4", "5", "6", "7", "8", "9"}

\* UTF-16 code unit of a character of the modelled alphabet
CharCode(c) ==
    CASE c = " " -> 32 [] c = "-" -> 45 [] c = "/" -> 47
      [] c = "0" -> 48 [] c = "1" -> 49 [] c = "2" -> 50 [] c = "3" -> 51
      [] c = "4" -> 52 [] c = "5" -> 53 [] c = "6" -> 54 [] c = "7" -> 55
      [] c = "8" -> 56 [] c = "9" -> 57
      [] c = "A" -> 65 [] c = "B" -> 66 [] c = "P" -> 80 [] c = "Q" -> 81
      [] c = "a" -> 97 [] c = "b" -> 98 [] c = "d" -> 100 [] c = "e" -> 101
      [] c = "f" -> 102 [] c = "i" -> 105 [] c = "n" -> 110 [] c = "p" -> 112
      [] c = "q" -> 113 [] c = "u" -> 117

DigitValue(c) == CharCode(c) - 48

\* String(v)
JsString(v) ==
    IF v = Undefined THEN <<"u", "n", "d", "e", "f", "i", "n", "e", "d">> ELSE v

\* !v for a string or undefined
Falsy(v) == v = Undefined \/ v = <<>>

RECURSIVE TrimStart(_)
TrimStart(s) == IF s # <<>> /\ Head(s) = " " THEN TrimStart(Tail(s)) ELSE s

RECURSIVE TrimEnd(_)
TrimEnd(s) ==
    IF s # <<>> /\ s[Len(s)] = " " THEN TrimEnd(SubSeq(s, 1, Len(s) - 1)) ELSE s

\* String.prototype.trim
Trim(s) == TrimEnd(TrimStart(s))

UpperLetters ==
    << "A", "B", "C", "D", "E", "F", "G", "H", "I", "J", "K", "L", "M",
       "N", "O", "P", "Q", "R", "S", "T", "U", "V", "W", "X", "Y", "Z" >>
LowerLetters ==
    << "a", "b", "c", "d", "e", "f", "g", "h", "i", "j", "k", "l", "m",
       "n", "o", "p", "q", "r", "s", "t", "u", "v", "w", "x", "y", "z" >>

LowerChar(c) ==
    IF \E i \in 1..Len(UpperLetters) : UpperLetters[i] = c
    THEN LowerLetters[CHOOSE i \in 1..Len(UpperLetters) : UpperLetters[i] = c]
    ELSE c

\* String.prototype.toLowerCase
ToLower(s) == [i \in 1..Len(s) |-> LowerChar(s[i])]

\* a < b on strings: lexicographic order of the code units
RECURSIVE StrLess(_, _)
StrLess(a, b) ==
    IF b = <<>> THEN FALSE
    ELSE IF a = <<>> THEN TRUE
    ELSE IF CharCode(Head(a)) < CharCode(Head(b)) THEN TRUE
    ELSE IF CharCode(Head(a)) > CharCode(Head(b)) THEN FALSE
    ELSE StrLess(Tail(a), Tail(b))

\* String.prototype.startsWith
StartsWith(s, t) == Len(t) <= Len(s) /\ SubSeq(s, 1, Len(t)) = t

\* String.prototype.endsWith
EndsWith(s, t) == Len(t) <= Len(s) /\ SubSeq(s, Len(s) - Len(t) + 1, Len(s)) = t

\* String.prototype.includes
Includes(s, t) ==
    \E k \in 0..(Len(s) - Len(t)) : SubSeq(s, k + 1, k + Len(t)) = t

RECURSIVE DigitPrefix(_)
DigitPrefix(s) ==
    IF s # <<>> /\ Head(s) \in Digits THEN <<Head(s)>> \o DigitPrefix(Tail(s)) ELSE <<>>

RECURSIVE DigitsToNat(_, _)
DigitsToNat(ds, acc) ==
    IF ds = <<>> THEN acc ELSE DigitsToNat(Tail(ds), 10 * acc + DigitValue(Head(ds)))

\* parseInt of a string of digits
ParseInt(ds) == DigitsToNat(ds, 0)

NaN == [nan |-> TRUE, n |-> 0]

\* parseFloat: leading white space is skipped, then the longest numeric
\* prefix is read; no prefix gives NaN
ParseFloat(s) ==
    LET t == TrimStart(s)
        neg == t # <<>> /\ Head(t) = "-"
        ds == DigitPrefix(IF neg THEN Tail(t) ELSE t)
    IN  IF ds = <<>> THEN NaN
        ELSE [nan |-> FALSE, n |-> IF neg THEN 0 - ParseInt(ds) ELSE ParseInt(ds)]

IsNaN(x) == x.nan


-----------------------------------------------------------------------------
(* Dates (ruleEvaluator.ts) *)

\* s.split(sep)
RECURSIVE SplitOn(_, _)
SplitOn(s, sep) ==
    IF s = <<>> THEN << <<>> >>
    ELSE LET rest == SplitOn(Tail(s), sep)
         IN  IF Head(s) = sep THEN << <<>> >> \o rest
             ELSE << <<Head(s)>> \o Head(rest) >> \o Tail(rest)

AllDigits(f) == \A i \in 1..Len(f) : f[i] \in Digits

\* ^\d{l1}sep\d{l2}sep\d{l3}$ with each length drawn from a set
Shape(s, sep, l1, l2, l3) ==
    LET p == SplitOn(s, sep)
    IN  /\ Len(p) = 3
        /\ \A k \in 1..3 : AllDigits(p[k])
        /\ Len(p[1]) \in l1 /\ Len(p[2]) \in l2 /\ Len(p[3]) \in l3

\* the three numbers of a string that has one of the shapes
Fields(s, sep) == LET p == SplitOn(s, sep) IN [k \in 1..3 |-> ParseInt(p[k])]

IsLeap(y) == (y % 4 = 0 /\ y % 100 # 0) \/ y % 400 = 0

DaysInMonth(y, m) ==
    IF m = 2 THEN (IF IsLeap(y) THEN 29 ELSE 28)
    ELSE IF m \in {4, 6, 9, 11} THEN 30 ELSE 31

RECURSIVE DaysBeforeMonth(_, _)
DaysBeforeMonth(y, m) ==
    IF m = 1 THEN 0 ELSE DaysBeforeMonth(y, m - 1) + DaysInMonth(y, m - 1)

\* calendar day number of new Date(year, monthIndex, day): month and day roll over
CivilDay(year, monthIndex, day) ==
    LET y == year + (monthIndex \div 12)
        m == (monthIndex % 12) + 1
        k == y - 1
    IN  365 * y + (k \div 4) - (k \div 100) + (k \div 400)
          + DaysBeforeMonth(y, m) + day

ValidYMD(y, m, d) == m \in 1..12 /\ d \in 1..DaysInMonth(y, m)

\* A Date: the instant is midnight of calendar day `day`, in UTC or in local time
InvalidDate == [valid |-> FALSE, utc |-> FALSE, day |-> 0]
LocalDate(year, monthIndex, day) ==
    [valid |-> TRUE, utc |-> FALSE, day |-> CivilDay(year, monthIndex, day)]
UTCDate(year, monthIndex, day) ==
    [valid |-> TRUE, utc |-> TRUE, day |-> CivilDay(year, monthIndex, day)]

\* new Date(dateStr) of the host (V8), f the three numbers of the string: a
\* date-only ISO string is UTC midnight, the slash forms are local midnight,
\* a two-digit year is 20yy below 50 and 19yy from 50 on; an out-of-range
\* month or day is taken to give an invalid Date (the modelled cells hold
\* in-range months and days only).  The D-M-YYYY form is not understood by
\* the host parser.
NewDateISO(f) ==
    IF ValidYMD(f[1], f[2], f[3]) THEN UTCDate(f[1], f[2] - 1, f[3]) ELSE InvalidDate
NewDateMDY(f) ==
    IF ValidYMD(f[3], f[1], f[2]) THEN LocalDate(f[3], f[1] - 1, f[2]) ELSE InvalidDate
ShortYear(yy) == IF yy < 50 THEN 2000 + yy ELSE 1900 + yy
NewDateMDYY(f) ==
    IF ValidYMD(ShortYear(f[3]), f[1], f[2])
    THEN LocalDate(ShortYear(f[3]), f[1] - 1, f[2]) ELSE InvalidDate
NewDateYMDSlash(f) ==
    IF ValidYMD(f[1], f[2], f[3]) THEN LocalDate(f[1], f[2] - 1, f[3]) ELSE InvalidDate

NewDateFromString(s) ==
    IF Shape(s, "-", {4}, {2}, {2}) THEN NewDateISO(Fields(s, "-"))
    ELSE IF Shape(s, "/", {1, 2}, {1, 2}, {4}) THEN NewDateMDY(Fields(s, "/"))
    ELSE IF Shape(s, "/", {1, 2}, {1, 2}, {2}) THEN NewDateMDYY(Fields(s, "/"))
    ELSE IF Shape(s, "/", {4}, {2}, {2}) THEN NewDateYMDSlash(Fields(s, "/"))
    ELSE InvalidDate

\* Methods 2 to 5 of parseDate: the parts read with explicit patterns
ExplicitMDY(f) == LocalDate(f[3], f[1] - 1, f[2])
ExplicitYMD(f) == LocalDate(f[1], f[2] - 1, f[3])
ExplicitDMY(f) == LocalDate(f[3], f[2] - 1, f[1])

parseDateMethods(dateStr, direct) ==
    IF direct.valid THEN direct
    ELSE IF Shape(dateStr, "/", {1, 2}, {1, 2}, {4})
    THEN ExplicitMDY(Fields(dateStr, "/"))
    ELSE IF Shape(dateStr, "-", {4}, {1, 2}, {1, 2})
    THEN ExplicitYMD(Fields(dateStr, "-"))
    ELSE IF Shape(dateStr, "-", {1, 2}, {1, 2}, {4})
    THEN ExplicitDMY(Fields(dateStr, "-"))
    ELSE InvalidDate

\* formats.some(format => format.test(dateStr))
hasDateFormat(dateStr) ==
    \/ Shape(dateStr, "-", {4}, {2}, {2})
    \/ Shape(dateStr, "/", {1, 2}, {1, 2}, {4})
    \/ Shape(dateStr, "/", {1, 2}, {1, 2}, {2})
    \/ Shape(dateStr, "-", {1, 2}, {1, 2}, {4})
    \/ Shape(dateStr, "/", {4}, {2}, {2})

parseDateStr(dateStr) ==
    IF dateStr = <<>> THEN InvalidDate
    ELSE IF ~hasDateFormat(dateStr) THEN InvalidDate
    ELSE parseDateMethods(dateStr, NewDateFromString(dateStr))

\* parseDate: null is the invalid Date
parseDate(dateValue) ==
    IF Falsy(dateValue) THEN InvalidDate ELSE parseDateStr(Trim(JsString(dateValue)))

datePatterns(str) ==
    \/ Shape(str, "-", {4}, {1, 2}, {1, 2})
    \/ Shape(str, "/", {1, 2}, {1, 2}, {2, 3, 4})
    \/ Shape(str, "-", {1, 2}, {1, 2}, {4})
    \/ Shape(str, "/", {4}, {1, 2}, {1, 2})

isDateLike(value) ==
    IF Falsy(value) THEN FALSE ELSE datePatterns(Trim(JsString(value)))

\* normalizeDate(date).getTime(), in days: the local calendar day of the instant
normalizeDate(date) ==
    IF date.utc /\ hostWestOfUTC THEN date.day - 1 ELSE date.day

-----------------------------------------------------------------------------
(* Leaf conditions (ruleEvaluator.ts) *)

\* an optional column name that is not set (undefined or '')
NoColumn == ""

\* row[column]
Get(row, column) == IF column \in DOMAIN row THEN row[column] ELSE Undefined

Operators ==
    {"equals", "not_equals", "greater_than", "less_than", "greater_equal",
     "less_equal", "between", "not_between", "contains", "not_contains",
     "starts_with", "ends_with", "is_empty", "is_not_empty"}

NumericOperators ==
    {"equals", "not_equals", "greater_than", "less_than", "greater_equal",
     "less_equal", "between", "not_between"}

Min(a, b) == IF a <= b THEN a ELSE b
Max(a, b) == IF a >= b THEN a ELSE b

compareStrings(stringColumnValue, stringTargetValue, operator) ==
    CASE operator = "equals" -> stringColumnValue = stringTargetValue
      [] operator = "not_equals" -> stringColumnValue # stringTargetValue
      [] operator = "greater_than" -> StrLess(stringTargetValue, stringColumnValue)
      [] operator = "less_than" -> StrLess(stringColumnValue, stringTargetValue)
      [] operator = "greater_equal" -> ~StrLess(stringColumnValue, stringTargetValue)
      [] operator = "less_equal" -> ~StrLess(stringTargetValue, stringColumnValue)
      [] operator = "contains" -> Includes(stringColumnValue, stringTargetValue)
      [] operator = "not_contains" -> ~Includes(stringColumnValue, stringTargetValue)
      [] operator = "starts_with" -> StartsWith(stringColumnValue, stringTargetValue)
      [] operator = "ends_with" -> EndsWith(stringColumnValue, stringTargetValue)
      [] operator = "between" -> FALSE
      [] operator = "not_between" -> TRUE
      [] OTHER -> FALSE

evaluateAsString(columnValue, targetValue, targetValue2, operator) ==
    compareStrings(ToLower(JsString(columnValue)), ToLower(JsString(targetValue)),
                   operator)

\* Within that takes the first bound for the lower one
Within_ordered(value, bound1, bound2) == value >= bound1 /\ value <= bound2

\* value inside the unordered pair of bounds
Within(value, bound1, bound2) ==
    value >= Min(bound1, bound2) /\ value <= Max(bound1, bound2)

\* the switch of the date branch: c and t are the normalized column and
\* target dates, hasBound2 that value2 is set, date-like and parsed, t2 its
\* normalized date
compareDates(c, t, hasBound2, t2, operator) ==
    CASE operator = "equals" -> c = t
      [] operator = "not_equals" -> c # t
      [] operator = "greater_than" -> c > t
      [] operator = "less_than" -> c < t
      [] operator = "greater_equal" -> c >= t
      [] operator = "less_equal" -> c <= t
      [] operator = "between" -> IF ~hasBound2 THEN FALSE ELSE Within(c, t, t2)
      [] operator = "not_between" -> IF ~hasBound2 THEN TRUE ELSE ~Within(c, t, t2)

\* value2 is set, date-like, and parseDate reads it
dateBound2(targetValue2, targetDate2) ==
    /\ ~Falsy(targetValue2)
    /\ isDateLike(targetValue2)
    /\ targetDate2.valid

\* the date branch of evaluateCondition, entered with both dates parsed
evaluateAsDate(columnDate, targetDate, targetDate2, columnValue, targetValue, targetValue2, operator) ==
    IF operator \in NumericOperators
    THEN compareDates(normalizeDate(columnDate), normalizeDate(targetDate),
                      dateBound2(targetValue2, targetDate2),
                      normalizeDate(targetDate2), operator)
    ELSE evaluateAsString(columnValue, targetValue, targetValue2, operator)

\* compareNumbers with less_equal computed as a strict comparison
compareNumbers_strictLessEqual(n, t, hasBound2, t2, operator) ==
    CASE operator = "equals" -> n = t
      [] operator = "not_equals" -> n # t
      [] operator = "greater_than" -> n > t
      [] operator = "less_than" -> n < t
      [] operator = "greater_equal" -> n >= t
      [] operator = "less_equal" -> n < t
      [] operator = "between" -> IF ~hasBound2 THEN FALSE ELSE Within(n, t, t2)
      [] operator = "not_between" -> IF ~hasBound2 THEN TRUE ELSE ~Within(n, t, t2)

\* the switch of the numeric branch: n and t are the column and target
\* numbers, hasBound2 that value2 is set and a number, t2 that number
compareNumbers(n, t, hasBound2, t2, operator) ==
    CASE operator = "equals" -> n = t
      [] operator = "not_equals" -> n # t
      [] operator = "greater_than" -> n > t
      [] operator = "less_than" -> n < t
      [] operator = "greater_equal" -> n >= t
      [] operator = "less_equal" -> n <= t
      [] operator = "between" -> IF ~hasBound2 THEN FALSE ELSE Within(n, t, t2)
      [] operator = "not_between" -> IF ~hasBound2 THEN TRUE ELSE ~Within(n, t, t2)

\* targetValue2 ? parseFloat(String(targetValue2)) : 0
numericTargetValue2(targetValue2) ==
    IF Falsy(targetValue2) THEN [nan |-> FALSE, n |-> 0]
    ELSE ParseFloat(JsString(targetValue2))

\* the dispatch of evaluateCondition on a non-empty cell, with the parses made
evaluateByType(columnDate, targetDate, numericColumnValue, numericTargetValue, numericTarget2, columnValue, targetValue, targetValue2, operator) ==
    IF isDateLike(columnValue) /\ isDateLike(targetValue)
    THEN IF ~columnDate.valid \/ ~targetDate.valid
         THEN evaluateAsString(columnValue, targetValue, targetValue2, operator)
         ELSE evaluateAsDate(columnDate, targetDate, parseDate(targetValue2),
                             columnValue, targetValue, targetValue2, operator)
    ELSE IF /\ ~IsNaN(numericColumnValue) /\ ~IsNaN(numericTargetValue)
            /\ operator \in NumericOperators
    THEN compareNumbers(numericColumnValue.n, numericTargetValue.n,
                        ~Falsy(targetValue2) /\ ~IsNaN(numericTarget2),
                        numericTarget2.n, operator)
    ELSE evaluateAsString(columnValue, targetValue, targetValue2, operator)

\* isEmpty that looks for null and undefined only
isEmptyValue_missingOnly(columnValue) == columnValue = Undefined

\* const isEmpty = columnValue === null || columnValue === undefined || ...
isEmptyValue(columnValue) ==
    columnValue = Undefined \/ Trim(JsString(columnValue)) = <<>>

evaluateValue(columnValue, targetValue, targetValue2, operator) ==
    IF operator = "is_empty" THEN isEmptyValue(columnValue)
    ELSE IF operator = "is_not_empty" THEN ~isEmptyValue(columnValue)
    ELSE IF isEmptyValue(columnValue) THEN FALSE
    ELSE evaluateByType(parseDate(columnValue), parseDate(targetValue),
                        ParseFloat(JsString(columnValue)),
                        ParseFloat(JsString(targetValue)),
                        numericTargetValue2(targetValue2),
                        columnValue, targetValue, targetValue2, operator)

evaluateCondition(row, condition) ==
    evaluateValue(Get(row, condition.column), condition.value, condition.value2,
                  condition.operator)

-----------------------------------------------------------------------------
(* Reference conditions (referenceEvaluator.ts) *)

\* array.find(f => f.id === id): the index of the first such file, 0 for none
RECURSIVE FindIndexById(_, _, _)
FindIndexById(files, id, k) ==
    IF k > Len(files) THEN 0
    ELSE IF files[k].id = id THEN k
    ELSE FindIndexById(files, id, k + 1)

\* the result for a row whatever the referenced table, were it absent
missingFileResult_byType(condition) == condition.type = "reference_not_match"

\* lines 10 to 13: the referenced file is not found
missingFileResult(condition) == FALSE

\* the result for an empty row value that is false for both types
emptyValueResult_false(condition) == FALSE

\* lines 17 to 19: the row's value is null, undefined or blank
emptyValueResult(condition) == condition.type = "reference_not_match"

\* the compared key with the letters' case kept
referenceKey_caseKept(v) == Trim(JsString(v))

\* String(v).toLowerCase().trim()
referenceKey(v) == Trim(ToLower(JsString(v)))

evaluateReferenceCondition(row, condition, referenceFiles) ==
    LET k == FindIndexById(referenceFiles, condition.referenceFileId, 1)
        mainValue == Get(row, condition.column)
    IN  IF k = 0 THEN missingFileResult(condition)
        ELSE IF mainValue = Undefined \/ Trim(JsString(mainValue)) = <<>>
        THEN emptyValueResult(condition)
        ELSE
        LET referenceData == referenceFiles[k].rows
            FilterHit(refRow) ==
                referenceKey(Get(refRow, condition.filterColumn))
                    = Trim(ToLower(condition.filterValue))
            filteredReferenceData ==
                IF condition.filterColumn # NoColumn /\ ~Falsy(condition.filterValue)
                THEN SelectSeq(referenceData, FilterHit)
                ELSE referenceData
            mainValueStr == referenceKey(mainValue)
            hasMatch ==
                \E i \in 1..Len(filteredReferenceData) :
                    LET refValue == Get(filteredReferenceData[i], condition.referenceColumn)
                    IN  /\ refValue # Undefined
                        /\ referenceKey(refValue) = mainValueStr
        IN  CASE condition.type = "reference_match" -> hasMatch
              [] condition.type = "reference_not_match" -> ~hasMatch
              [] OTHER -> FALSE

-----------------------------------------------------------------------------
(* Group conditions (groupEvaluator.ts) *)

\* the key without the trim
KeyOf_untrimmed(row, column) == IF Falsy(Get(row, column)) THEN <<>> ELSE Get(row, column)

\* String(row[column] || '').trim()
KeyOf(row, column) ==
    LET v == Get(row, column) IN IF Falsy(v) THEN <<>> ELSE Trim(v)

\* the rows of one partition, in data order
RowsOfGroup(data, groupBy, groupKey) ==
    LET InGroup(row) == KeyOf(row, groupBy) = groupKey IN SelectSeq(data, InGroup)

\* the keys of the groups Map: the non-empty trimmed keys of the data
GroupKeys(data, groupBy) ==
    {KeyOf(data[i], groupBy) : i \in 1..Len(data)} \ {<<>>}

\* aggregates are exact rationals num / den with den > 0
Rat(n) == [num |-> n, den |-> 1]

RECURSIVE DistinctLoop(_, _, _, _)
DistinctLoop(rows, condition, distinctValues, seenDistinctConstraints) ==
    IF rows = <<>> THEN distinctValues
    ELSE
    LET row == Head(rows)
        targetValue == Get(row, condition.targetColumn)
        constraintValue == KeyOf(row, condition.withinDistinct)
    IN  IF targetValue = Undefined \/ Trim(targetValue) = <<>>
        THEN DistinctLoop(Tail(rows), condition, distinctValues, seenDistinctConstraints)
        ELSE IF condition.withinDistinct # NoColumn
        THEN IF constraintValue = <<>> \/ constraintValue \in seenDistinctConstraints
             THEN DistinctLoop(Tail(rows), condition, distinctValues,
                               seenDistinctConstraints)
             ELSE DistinctLoop(Tail(rows), condition,
                               distinctValues \cup {Trim(targetValue)},
                               seenDistinctConstraints \cup {constraintValue})
        ELSE DistinctLoop(Tail(rows), condition,
                          distinctValues \cup {Trim(targetValue)},
                          seenDistinctConstraints)

\* the count of the distinct constraint values when withinDistinct is set
calculateDistinctCount_constraints(rows, condition) ==
    IF condition.withinDistinct # NoColumn
    THEN Cardinality({KeyOf(rows[i], condition.withinDistinct) : i \in 1..Len(rows)}
                        \ {<<>>})
    ELSE Cardinality(DistinctLoop(rows, condition, {}, {}))

calculateDistinctCount(rows, condition) ==
    Cardinality(DistinctLoop(rows, condition, {}, {}))

\* parseFloat(String(row[targetColumn] || dflt))
CellNumber(row, targetColumn, dflt) ==
    LET v == Get(row, targetColumn) IN ParseFloat(IF Falsy(v) THEN dflt ELSE v)

RECURSIVE calculateSum(_, _)
calculateSum(rows, targetColumn) ==
    IF rows = <<>> THEN 0
    ELSE LET value == CellNumber(Head(rows), targetColumn, <<"0">>)
         IN  (IF IsNaN(value) THEN 0 ELSE value.n) + calculateSum(Tail(rows), targetColumn)

\* the average over all rows of the partition
calculateAverage_allRows(rows, targetColumn) ==
    IF Len(rows) > 0 THEN [num |-> calculateSum(rows, targetColumn), den |-> Len(rows)]
    ELSE Rat(0)

calculateAverage(rows, targetColumn) ==
    LET sum == calculateSum(rows, targetColumn)
        Valid(row) == ~IsNaN(CellNumber(row, targetColumn, <<>>))
        validCount == Len(SelectSeq(rows, Valid))
    IN  IF validCount > 0 THEN [num |-> sum, den |-> validCount] ELSE Rat(0)

\* the parseable numbers of the target column
ParsedValues(rows, targetColumn) ==
    {CellNumber(rows[i], targetColumn, <<>>).n :
        i \in {j \in 1..Len(rows) : ~IsNaN(CellNumber(rows[j], targetColumn, <<>>))}}

calculateMin(rows, targetColumn) ==
    LET vs == ParsedValues(rows, targetColumn)
    IN  IF vs = {} THEN 0 ELSE CHOOSE v \in vs : \A w \in vs : v <= w

calculateMax(rows, targetColumn) ==
    LET vs == ParsedValues(rows, targetColumn)
    IN  IF vs = {} THEN 0 ELSE CHOOSE v \in vs : \A w \in vs : v >= w

\* actualValue op targetValue, the actual value a rational
evaluateNumericCondition(actualValue, operator, targetValue) ==
    LET a == actualValue.num
        t == targetValue * actualValue.den
    IN  CASE operator = "equals" -> a = t
          [] operator = "not_equals" -> a # t
          [] operator = "greater_than" -> a > t
          [] operator = "less_than" -> a < t
          [] operator = "greater_equal" -> a >= t
          [] operator = "less_equal" -> a <= t
          [] OTHER -> FALSE

aggregate(groupRows, condition) ==
    CASE condition.aggregationType = "distinct_count" ->
            Rat(calculateDistinctCount(groupRows, condition))
      [] condition.aggregationType = "count" -> Rat(Len(groupRows))
      [] condition.aggregationType = "sum" ->
            Rat(calculateSum(groupRows, condition.targetColumn))
      [] condition.aggregationType = "avg" ->
            calculateAverage(groupRows, condition.targetColumn)
      [] condition.aggregationType = "min" ->
            Rat(calculateMin(groupRows, condition.targetColumn))
      [] condition.aggregationType = "max" ->
            Rat(calculateMax(groupRows, condition.targetColumn))
      [] OTHER -> Rat(0)

\* the Set of the keys of the matching groups
evaluateGroupCondition(data, condition) ==
    {groupKey \in GroupKeys(data, condition.groupBy) :
        Const(RowsOfGroup(data, condition.groupBy, groupKey), LAMBDA groupRows :
        Const(aggregate(groupRows, condition), LAMBDA aggregateValue :
            evaluateNumericCondition(aggregateValue, condition.operator,
                                     condition.value)))}

getGroupStatistics(data, groupBy, matchingGroups) ==
    LET totalGroups == Cardinality(GroupKeys(data, groupBy))
        matchedGroups == Cardinality(matchingGroups)
    IN  [totalGroups |-> totalGroups,
         matchedGroups |-> matchedGroups,
         groupPercentage |->
            IF totalGroups > 0 THEN [num |-> matchedGroups * 100, den |-> totalGroups]
            ELSE Rat(0)]

-----------------------------------------------------------------------------
(* Rule groups (ruleEvaluator.ts) *)

\* new Map()
EmptyMemo == <<>>

\* if (!groupConditionResults.has(condition.id)) groupConditionResults.set(...)
memoize(groupConditionResults, condition, allData) ==
    IF condition.id \in DOMAIN groupConditionResults
    THEN groupConditionResults
    ELSE groupConditionResults @@
            (condition.id :> evaluateGroupCondition(allData, condition))

\* the verdict that keeps the matching groups whatever the action
groupConditionResult_keepOnly(row, condition, matchingGroups) ==
    KeyOf(row, condition.groupBy) \in matchingGroups

\* the row's verdict under one group condition, given its matching groups
groupConditionResult(row, condition, matchingGroups) ==
    IF condition.action = "keep_matching_groups"
    THEN KeyOf(row, condition.groupBy) \in matchingGroups
    ELSE KeyOf(row, condition.groupBy) \notin matchingGroups

\* one callback of ruleGroup.groupConditions.map, memo the Map after its set
groupConditionStep(row, condition, memo, results) ==
    [results |-> Append(results, groupConditionResult(row, condition, memo[condition.id])),
     memo |-> memo]

\* ruleGroup.groupConditions.map(...): the results, and the memo as the calls
\* leave it; acc carries both
RECURSIVE groupResultsLoop(_, _, _, _)
groupResultsLoop(row, conditions, allData, acc) ==
    IF conditions = <<>> THEN acc
    ELSE Const(groupConditionStep(row, Head(conditions),
                                  memoize(acc.memo, Head(conditions), allData),
                                  acc.results),
               LAMBDA next : groupResultsLoop(row, Tail(conditions), allData, next))

\* allResults.every(r => r) and allResults.some(r => r)
Every(results) == \A i \in 1..Len(results) : results[i]
Some(results) == \E i \in 1..Len(results) : results[i]

\* combineResults that forgets the negation
combineResults_negationDropped(allResults, logic, negated) ==
    IF Len(allResults) = 0 THEN TRUE
    ELSE IF logic = "AND" THEN Every(allResults) ELSE Some(allResults)

\* lines 289 to 299: the empty group is true before the negation is looked at
combineResults(allResults, logic, negated) ==
    IF Len(allResults) = 0 THEN TRUE
    ELSE IF negated
    THEN ~(IF logic = "AND" THEN Every(allResults) ELSE Some(allResults))
    ELSE IF logic = "AND" THEN Every(allResults) ELSE Some(allResults)

\* one callback of ruleGroup.groups.map: child is the nested call's outcome
subGroupStep(results, child) ==
    [results |-> Append(results, child.result), memo |-> child.memo]

\* the boolean returned, and the memo Map as the call leaves it
RECURSIVE evaluateRuleGroup(_, _, _, _, _)

\* ruleGroup.groups.map(...): the memo passes from one child to the next
RECURSIVE subGroupResultsLoop(_, _, _, _, _)
subGroupResultsLoop(row, groups, referenceFiles, allData, acc) ==
    IF groups = <<>> THEN acc
    ELSE Const(subGroupStep(acc.results,
                            evaluateRuleGroup(row, Head(groups), referenceFiles,
                                              allData, acc.memo)),
               LAMBDA next :
                   subGroupResultsLoop(row, Tail(groups), referenceFiles, allData, next))

\* ruleGroup.conditions.map(...) then ruleGroup.referenceConditions.map(...)
leafResults(row, ruleGroup, referenceFiles) ==
    [i \in 1..Len(ruleGroup.conditions) |->
        evaluateCondition(row, ruleGroup.conditions[i])]
    \o [i \in 1..Len(ruleGroup.referenceConditions) |->
        evaluateReferenceCondition(row, ruleGroup.referenceConditions[i],
                                   referenceFiles)]

\* the results of the four maps joined and combined
ruleGroupOutcome(ruleGroup, allPart) ==
    [result |-> combineResults(allPart.results, ruleGroup.logic, ruleGroup.negated),
     memo |-> allPart.memo]

evaluateRuleGroup(row, ruleGroup, referenceFiles, allData, groupConditionResults) ==
    Const([results |-> leafResults(row, ruleGroup, referenceFiles),
           memo |-> groupConditionResults], LAMBDA leaves :
    Const(groupResultsLoop(row, ruleGroup.groupConditions, allData, leaves),
          LAMBDA withGroups :
    Const(subGroupResultsLoop(row, ruleGroup.groups, referenceFiles, allData,
                              withGroups), LAMBDA allPart :
        ruleGroupOutcome(ruleGroup, allPart))))

RECURSIVE getAllGroupConditions(_)
RECURSIVE subGroupConditions(_)
subGroupConditions(groups) ==
    IF groups = <<>> THEN <<>>
    ELSE getAllGroupConditions(Head(groups)) \o subGroupConditions(Tail(groups))

getAllGroupConditions(ruleGroup) ==
    ruleGroup.groupConditions \o subGroupConditions(ruleGroup.groups)

-----------------------------------------------------------------------------
(* LazyCSVLoader (csvParser.ts) *)

\* A loader is [lines, headers]: lines[1] is the header line and every line is
\* the sequence of its comma-separated fields.  Its two caches are kept
\* apart, as [cache, batchCache], because they change while the loader's
\* lines do not.

LoaderLength(loader) == Len(loader.lines) - 1

EmptyCaches == [cache |-> <<>>, batchCache |-> <<>>]

\* value.replace(/['"]/g, '')
IsNotQuote(ch) == ch \notin {"'", "\""}
StripQuotes(s) == SelectSeq(s, IsNotQuote)

\* the index of the last header equal to h: headers.forEach assigns in order
LastIndexOf(headers, h) ==
    CHOOSE k \in 1..Len(headers) :
        /\ headers[k] = h
        /\ \A j \in (k + 1)..Len(headers) : headers[j] # h

\* row[header] = values[idx] || ''
RowFromValues(headers, values) ==
    [h \in {headers[k] : k \in 1..Len(headers)} |->
        IF LastIndexOf(headers, h) <= Len(values)
        THEN values[LastIndexOf(headers, h)] ELSE <<>>]

\* the row parsed from the line of row `index`
ParsedRow(loader, index) ==
    RowFromValues(loader.headers,
        [k \in 1..Len(loader.lines[index + 2]) |->
            StripQuotes(Trim(loader.lines[index + 2][k]))])

\* this.cache.set(index, row); return row
cacheRow(caches, index, row) ==
    [row |-> row, caches |-> [caches EXCEPT !.cache = (index :> row) @@ @]]

getRow(loader, caches, index) ==
    IF index < 0 \/ index >= LoaderLength(loader)
    THEN [row |-> Undefined, caches |-> caches]
    ELSE IF index \in DOMAIN caches.cache
    THEN [row |-> caches.cache[index], caches |-> caches]
    ELSE cacheRow(caches, index, ParsedRow(loader, index))

\* const row = this.getRow(i); if (row) batch.push(row)
pushRow(batch, got) ==
    [batch |-> IF got.row # Undefined THEN Append(batch, got.row) ELSE batch,
     caches |-> got.caches]

\* the for loop of getBatch; acc is the batch and the caches so far
RECURSIVE getBatchLoop(_, _, _, _)
getBatchLoop(loader, i, endIndex, acc) ==
    IF i >= endIndex THEN acc
    ELSE Const(pushRow(acc.batch, getRow(loader, acc.caches, i)),
               LAMBDA next : getBatchLoop(loader, i + 1, endIndex, next))

\* this.batchCache.set(cacheKey, batch); return batch
cacheBatch(cacheKey, built) ==
    [batch |-> built.batch,
     caches |-> [built.caches EXCEPT !.batchCache = (cacheKey :> built.batch) @@ @]]

\* getBatch whose cached batches have been emptied by the time they are found
getBatch_emptyOnHit(loader, caches, startIndex, batchSize) ==
    IF <<startIndex, batchSize>> \in DOMAIN caches.batchCache
    THEN [batch |-> <<>>, caches |-> caches]
    ELSE cacheBatch(<<startIndex, batchSize>>,
            getBatchLoop(loader, startIndex,
                         Min(startIndex + batchSize, LoaderLength(loader)),
                         [batch |-> <<>>, caches |-> caches]))

getBatch(loader, caches, startIndex, batchSize) ==
    IF <<startIndex, batchSize>> \in DOMAIN caches.batchCache
    THEN [batch |-> caches.batchCache[<<startIndex, batchSize>>], caches |-> caches]
    ELSE cacheBatch(<<startIndex, batchSize>>,
            getBatchLoop(loader, startIndex,
                         Min(startIndex + batchSize, LoaderLength(loader)),
                         [batch |-> <<>>, caches |-> caches]))

clearCache(caches) == EmptyCaches

\* toArray(): the rows of the loader, in order
RECURSIVE toArrayLoop(_, _, _)
toArrayLoop(loader, i, acc) ==
    IF i >= LoaderLength(loader) THEN acc
    ELSE Const(pushRow(acc.batch, getRow(loader, acc.caches, i)),
               LAMBDA next : toArrayLoop(loader, i + 1, next))

toArray(loader, caches) ==
    toArrayLoop(loader, 0, [batch |-> <<>>, caches |-> caches])

-----------------------------------------------------------------------------
(* evaluateRules (ruleEvaluator.ts) *)

\* The batch sizes and the large-dataset threshold are the program's, scaled
\* down so that a dataset of a few rows spans several batches.
ArrayBatchSize == 2          \* batchSize = 10000
LargeDataThreshold == 2      \* data.length > 50000
LazyBatchSize == 2           \* batchSize = 25000
YieldEvery == 4              \* i % (batchSize * 4) === 0

Percentage(part, whole) ==
    IF whole > 0 THEN [num |-> part * 100, den |-> whole] ELSE Rat(0)

\* groupStats is <<>> when undefined and <<stats>> when set
NoGroupStats == <<>>

\* the union of the memo's sets
AllMatchingGroups(groupConditionResults) ==
    UNION {groupConditionResults[id] : id \in DOMAIN groupConditionResults}

\* for (const condition of allGroupConditions) { ... set(condition.id, ...) }
RECURSIVE ArrayPrecompute(_, _, _)
ArrayPrecompute(data, conditions, groupConditionResults) ==
    IF conditions = <<>> THEN groupConditionResults
    ELSE ArrayPrecompute(data, Tail(conditions),
            (Head(conditions).id :> evaluateGroupCondition(data, Head(conditions)))
                @@ groupConditionResults)

\* batch.filter(row => evaluateRuleGroup(row, rules, referenceFiles, allData, memo))
filterRows(rows, rules, referenceFiles, allData, groupConditionResults) ==
    LET Matches(row) ==
            evaluateRuleGroup(row, rules, referenceFiles, allData,
                              groupConditionResults).result
    IN  SelectSeq(rows, Matches)

\* the batch loop of evaluateRulesArray from offset i on
RECURSIVE ArrayBatchLoop(_, _, _, _, _, _)
ArrayBatchLoop(data, rules, referenceFiles, groupConditionResults, i, matchedRows) ==
    IF i >= Len(data) THEN matchedRows
    ELSE ArrayBatchLoop(data, rules, referenceFiles, groupConditionResults,
            i + ArrayBatchSize,
            matchedRows \o
                filterRows(SubSeq(data, i + 1, Min(i + ArrayBatchSize, Len(data))),
                           rules, referenceFiles, data, groupConditionResults))

\* the matched rows of evaluateRulesArray, batched above the threshold
arrayMatchedRows(data, rules, referenceFiles, groupConditionResults) ==
    IF Len(data) > LargeDataThreshold
    THEN ArrayBatchLoop(data, rules, referenceFiles, groupConditionResults, 0, <<>>)
    ELSE filterRows(data, rules, referenceFiles, data, groupConditionResults)

\* groupStats of evaluateRulesArray
arrayGroupStats(data, allGroupConditions, groupConditionResults) ==
    IF Len(allGroupConditions) > 0
    THEN <<getGroupStatistics(data, allGroupConditions[1].groupBy,
                              AllMatchingGroups(groupConditionResults))>>
    ELSE NoGroupStats

\* the object an evaluation returns
EvaluationResult(matchedRows, totalRows, groupStats) ==
    [matchedRows |-> matchedRows,
     totalRows |-> totalRows,
     matchedCount |-> Len(matchedRows),
     percentage |-> Percentage(Len(matchedRows), totalRows),
     groupStats |-> groupStats]

arrayResult(data, rules, referenceFiles, allGroupConditions, groupConditionResults) ==
    EvaluationResult(
        arrayMatchedRows(data, rules, referenceFiles, groupConditionResults),
        Len(data),
        arrayGroupStats(data, allGroupConditions, groupConditionResults))

evaluateRulesArray(data, rules, referenceFiles) ==
    Const(ArrayPrecompute(data, getAllGroupConditions(rules), EmptyMemo),
          LAMBDA groupConditionResults :
              arrayResult(data, rules, referenceFiles, getAllGroupConditions(rules),
                          groupConditionResults))

\* after the batch at offset i: clearCache() when i % (batchSize * 4) === 0
LazyClear(caches, i) ==
    IF i % (LazyBatchSize * YieldEvery) = 0 THEN clearCache(caches) ELSE caches

\* one batch of the loop that computes a group condition
lazyGroupStep(got, condition, i, matchingGroups) ==
    [groups |-> matchingGroups \cup evaluateGroupCondition(got.batch, condition),
     caches |-> LazyClear(got.caches, i)]

\* the batch loop that computes one group condition, from offset i on
RECURSIVE LazyGroupLoop(_, _, _, _)
LazyGroupLoop(lazyData, condition, i, acc) ==
    IF i >= LoaderLength(lazyData) THEN acc
    ELSE Const(lazyGroupStep(getBatch(lazyData, acc.caches, i, LazyBatchSize),
                             condition, i, acc.groups),
               LAMBDA next : LazyGroupLoop(lazyData, condition, i + LazyBatchSize, next))

\* groupConditionResults.set(condition.id, matchingGroups)
lazySetMemo(condition, pass, groupConditionResults) ==
    [memo |-> (condition.id :> pass.groups) @@ groupConditionResults,
     caches |-> pass.caches]

\* for (const condition of allGroupConditions) { ... } of evaluateRulesLazy
RECURSIVE LazyPrecompute(_, _, _)
LazyPrecompute(lazyData, conditions, acc) ==
    IF conditions = <<>> THEN acc
    ELSE Const(LazyGroupLoop(lazyData, Head(conditions), 0,
                             [groups |-> {}, caches |-> acc.caches]), LAMBDA pass :
         Const(lazySetMemo(Head(conditions), pass, acc.memo), LAMBDA next :
             LazyPrecompute(lazyData, Tail(conditions), next)))

\* one batch of the main loop
lazyBatchStep(got, rules, referenceFiles, groupConditionResults, i, matchedRows) ==
    [matchedRows |-> matchedRows \o
        filterRows(got.batch, rules, referenceFiles, <<>>, groupConditionResults),
     caches |-> LazyClear(got.caches, i)]

\* the main batch loop of evaluateRulesLazy, from offset i on
RECURSIVE LazyBatchLoop(_, _, _, _, _, _)
LazyBatchLoop(lazyData, rules, referenceFiles, groupConditionResults, i, acc) ==
    IF i >= LoaderLength(lazyData) THEN acc
    ELSE Const(lazyBatchStep(getBatch(lazyData, acc.caches, i, LazyBatchSize),
                             rules, referenceFiles, groupConditionResults, i,
                             acc.matchedRows),
               LAMBDA next :
                   LazyBatchLoop(lazyData, rules, referenceFiles,
                                 groupConditionResults, i + LazyBatchSize, next))

\* one batch of the loop that counts the groups
lazyStatsStep(got, groupBy, i, allGroups) ==
    [allGroups |-> allGroups \cup GroupKeys(got.batch, groupBy),
     caches |-> LazyClear(got.caches, i)]

\* the batch loop that counts the groups of the dataset, from offset i on
RECURSIVE LazyStatsLoop(_, _, _, _)
LazyStatsLoop(lazyData, groupBy, i, acc) ==
    IF i >= LoaderLength(lazyData) THEN acc
    ELSE Const(lazyStatsStep(getBatch(lazyData, acc.caches, i, LazyBatchSize),
                             groupBy, i, acc.allGroups),
               LAMBDA next : LazyStatsLoop(lazyData, groupBy, i + LazyBatchSize, next))

\* groupStats = { totalGroups, matchedGroups, groupPercentage }
lazyGroupStats(allGroups, allMatchingGroups) ==
    [totalGroups |-> Cardinality(allGroups),
     matchedGroups |-> Cardinality(allMatchingGroups),
     groupPercentage |->
        Percentage(Cardinality(allMatchingGroups), Cardinality(allGroups))]

\* the result with the statistics of the counting pass
lazyResultWithStats(lazyData, matchedRows, groupConditionResults, stats) ==
    [result |-> EvaluationResult(matchedRows, LoaderLength(lazyData),
                    <<lazyGroupStats(stats.allGroups,
                                     AllMatchingGroups(groupConditionResults))>>),
     caches |-> stats.caches]

\* lines 448 to 490: the statistics, if any, and the result
lazyResult(lazyData, allGroupConditions, groupConditionResults, main) ==
    IF Len(allGroupConditions) > 0
    THEN Const(LazyStatsLoop(lazyData, allGroupConditions[1].groupBy, 0,
                             [allGroups |-> {}, caches |-> main.caches]),
               LAMBDA stats :
                   lazyResultWithStats(lazyData, main.matchedRows,
                                       groupConditionResults, stats))
    ELSE [result |-> EvaluationResult(main.matchedRows, LoaderLength(lazyData),
                                      NoGroupStats),
          caches |-> main.caches]

\* lines 429 to 490, the memo computed
lazyMain(lazyData, rules, referenceFiles, allGroupConditions, pre) ==
    Const(LazyBatchLoop(lazyData, rules, referenceFiles, pre.memo, 0,
                        [matchedRows |-> <<>>, caches |-> pre.caches]),
          LAMBDA main : lazyResult(lazyData, allGroupConditions, pre.memo, main))

\* the EvaluationResult, and the loader's caches as the call leaves them
evaluateRulesLazy(lazyData, caches, rules, referenceFiles) ==
    Const(LazyPrecompute(lazyData, getAllGroupConditions(rules),
                         [memo |-> EmptyMemo, caches |-> caches]),
          LAMBDA pre : lazyMain(lazyData, rules, referenceFiles,
                                getAllGroupConditions(rules), pre))

\* A dataset handed to evaluateRules is an array, [kind |-> "array", rows], or
\* a LazyCSVLoader, [kind |-> "lazy", lines, headers].
IsLazyLoader(data) == data.kind = "lazy"

\* the EvaluationResult, and the caches of the loader the data may be
evaluateRules(data, caches, rules, referenceFiles) ==
    IF IsLazyLoader(data) THEN evaluateRulesLazy(data, caches, rules, referenceFiles)
    ELSE Const(data.rows, LAMBDA rows :
            [result |-> evaluateRulesArray(rows, rules, referenceFiles),
             caches |-> caches])

-----------------------------------------------------------------------------
(* Cell and target values the specifications draw from *)

S_empty == <<>>
S_blank == <<" ">>
S_5 == <<"5">>
S_sp5 == <<" ", "5">>
S_7 == <<"7">>
S_10 == <<"1", "0">>
S_a == <<"a">>
S_A == <<"A">>
S_b == <<"b">>
S_B == <<"B">>
S_2023_01_01 == <<"2", "0", "2", "3", "-", "0", "1", "-", "0", "1">>
S_2023_06_15 == <<"2", "0", "2", "3", "-", "0", "6", "-", "1", "5">>
S_2023_12_31 == <<"2", "0", "2", "3", "-", "1", "2", "-", "3", "1">>
S_1_1_2023 == <<"1", "/", "1", "/", "2", "0", "2", "3">>
\* date-like for isDateLike, but of no format parseDate knows
S_2023_1_5 == <<"2", "0", "2", "3", "-", "1", "-", "5">>

CondColumn == "Age"

\* the cell of the row under the condition's column; Undefined: the row has no such column
CondCells ==
    {Undefined, S_empty, S_blank, S_5, S_sp5, S_10, S_a, S_B,
     S_2023_01_01, S_2023_06_15, S_2023_1_5}

CondValues == {S_empty, S_5, S_10, S_A, S_b, S_2023_01_01, S_1_1_2023, S_2023_1_5}

CondValues2 == {Undefined, S_7, S_2023_12_31}

\* number of evaluateCondition calls made on one row
MaxCondCalls == 2

S_P == <<"P">>
S_Q == <<"Q">>

\* the comma-separated fields of the lines of a CSV file with these headers
Headers == <<"PatientId", "Code", "Age">>
L_PA5 == <<S_P, S_A, S_5>>
L_PB10 == <<S_P, S_B, S_10>>
L_QA10 == <<S_Q, S_A, S_10>>
RawLines == {L_PA5, L_PB10, L_QA10}

\* parseCSV of one line: its row
RowOfLine(line) == ParsedRow([lines |-> <<Headers, line>>, headers |-> Headers], 0)

RECURSIVE SeqsUpTo(_, _)
SeqsUpTo(S, n) ==
    IF n = 0 THEN {<<>>}
    ELSE LET shorter == SeqsUpTo(S, n - 1)
         IN  shorter \cup {Append(q, x) : q \in {r \in shorter : Len(r) = n - 1}, x \in S}

ReferenceFiles == << [id |-> "ref1", rows |-> << [Code |-> S_A] >>] >>

Leaf(column, operator, value) ==
    [column |-> column, operator |-> operator, value |-> value, value2 |-> Undefined]
AgeAtLeast10 == Leaf("Age", "greater_equal", S_10)
CodeIsA == Leaf("Code", "equals", S_a)
CodeIsQ == Leaf("Code", "equals", S_Q)

InRef1 ==
    [type |-> "reference_match", column |-> "Code", referenceFileId |-> "ref1",
     referenceColumn |-> "Code", filterColumn |-> NoColumn, filterValue |-> <<>>]
NotInGone ==
    [type |-> "reference_not_match", column |-> "Code", referenceFileId |-> "gone",
     referenceColumn |-> "Code", filterColumn |-> NoColumn, filterValue |-> <<>>]

GroupCond(id, aggregationType, targetColumn, operator, value, action) ==
    [id |-> id, groupBy |-> "PatientId", targetColumn |-> targetColumn,
     aggregationType |-> aggregationType, operator |-> operator, value |-> value,
     withinDistinct |-> NoColumn, action |-> action]
TwoRows == GroupCond("g1", "count", "Code", "greater_equal", 2, "keep_matching_groups")
\* a condition of another workflow that was given the same id as TwoRows
OneRow == GroupCond("g1", "count", "Code", "equals", 1, "keep_matching_groups")
TwoCodes ==
    GroupCond("g2", "distinct_count", "Code", "greater_equal", 2, "exclude_matching_groups")
AgeSumOver10 == GroupCond("g3", "sum", "Age", "greater_than", 10, "keep_matching_groups")
\* a condition that groups by another column than the others
EachCode ==
    [GroupCond("g4", "count", "Age", "greater_equal", 1, "keep_matching_groups")
        EXCEPT !.groupBy = "Code"]

Group(conditions, referenceConditions, groupConditions, logic, groups, negated) ==
    [conditions |-> conditions, referenceConditions |-> referenceConditions,
     groupConditions |-> groupConditions, logic |-> logic, groups |-> groups,
     negated |-> negated]

EmptyGroupNegated == Group(<<>>, <<>>, <<>>, "AND", <<>>, TRUE)
NotOldInRef == Group(<<AgeAtLeast10>>, <<InRef1>>, <<>>, "AND", <<>>, TRUE)
CodeOrSum == Group(<<CodeIsA>>, <<>>, <<AgeSumOver10>>, "OR", <<>>, FALSE)

\* the rule trees evaluateRuleGroup is applied to
RuleGroups ==
    {Group(cs, rs, gs, logic, subs, negated) :
        cs \in {<<>>, <<AgeAtLeast10>>, <<AgeAtLeast10, CodeIsA>>},
        rs \in {<<>>, <<InRef1, NotInGone>>},
        gs \in {<<>>, <<TwoRows, TwoCodes>>},
        logic \in {"AND", "OR"},
        subs \in {<<>>, <<EmptyGroupNegated>>, <<NotOldInRef, CodeOrSum>>},
        negated \in BOOLEAN}

\* number of rows of the dataset evaluateRuleGroup is applied to
MaxGroupRows == 2

-----------------------------------------------------------------------------
(* The variables of a specification that does not use them *)

RuleGroupIdle ==
    /\ rgData = <<>>
    /\ rgRow = <<>>
    /\ rgRules = EmptyGroupNegated
    /\ rgCalls = <<>>

ConditionIdle ==
    /\ condRow = <<>>
    /\ condProto = [column |-> CondColumn, value |-> <<>>, value2 |-> Undefined]
    /\ condResults = <<>>
    /\ condSwapped = <<>>

EvaluationIdle ==
    /\ evLoader = [kind |-> "lazy", lines |-> <<Headers>>, headers |-> Headers]
    /\ evRules = EmptyGroupNegated
    /\ evOut = <<>>

None == [kind |-> "none"]

ChainIdle ==
    /\ chChain = <<>>
    /\ chInitialData = [rows |-> <<>>, allRows |-> [kind |-> "array", rows |-> <<>>]]
    /\ chCaches = EmptyCaches
    /\ chPc = "done"
    /\ chI = 0
    /\ chCurrentData = [kind |-> "array", rows |-> <<>>]
    /\ chStepResults = <<>>
    /\ chLog = <<>>
    /\ chOutcome = None
    /\ uiState = [executionProgress |-> 0, chainExecuted |-> None,
                  savedChain |-> None, alert |-> None]

ReferenceIdle ==
    /\ rfData = <<>>
    /\ rfCondition = InRef1
    /\ rfResults = <<>>

GroupIdle ==
    /\ gcData = <<>>
    /\ gcCondition = TwoRows
    /\ gcMatching = <<>>
    /\ gcPassed = <<>>
    /\ gcDistinct = <<>>

GeneratedIdle ==
    /\ aiParsed = None
    /\ aiRules = None
    /\ aiOutcome = <<>>

Evaluations == {1, 2}

\* an evaluation that has not been called; path is "array" when App handed it
\* the parsed rows and "lazy" when it handed it the loader
NotCalled(path, rules) ==
    [path |-> path, rules |-> rules, pc |-> "idle", next |-> "idle",
     k |-> 1, i |-> 0, inflight |-> <<>>, order |-> <<>>, groups |-> {},
     memo |-> EmptyMemo, matchedRows |-> <<>>, allGroups |-> {},
     stats |-> NoGroupStats, sinceYield |-> 0, result |-> None]

\* no evaluateRules call is there to be made
Absent == [NotCalled("array", EmptyGroupNegated) EXCEPT !.pc = "absent"]

BatchesIdle ==
    /\ lzLoader = [kind |-> "lazy", lines |-> <<Headers>>, headers |-> Headers]
    /\ lzCaches = EmptyCaches
    /\ lzEval = [p \in Evaluations |-> Absent]
    /\ lzRunning = 0
    /\ lzOverlap = FALSE

-----------------------------------------------------------------------------
(* Specification SpecCondition: evaluateCondition applied to one row *)

RowOf(cell) ==
    IF cell = Undefined THEN [c \in {"Other"} |-> S_a] ELSE [c \in {CondColumn} |-> cell]

InitCondition ==
    /\ hostWestOfUTC \in BOOLEAN
    /\ ReferenceIdle
    /\ GroupIdle
    /\ GeneratedIdle
    /\ BatchesIdle
    /\ condRow \in {RowOf(cell) : cell \in CondCells}
    /\ condProto \in [column : {CondColumn}, value : CondValues, value2 : CondValues2]
    /\ condResults = <<>>
    /\ condSwapped = <<>>
    /\ RuleGroupIdle
    /\ EvaluationIdle
    /\ ChainIdle

ConditionOf(proto, operator) ==
    [column |-> proto.column, operator |-> operator,
     value |-> proto.value, value2 |-> proto.value2]

\* the calls made on the row so far
CondCallsMade == Cardinality(DOMAIN condResults) + Cardinality(DOMAIN condSwapped)

\* one call evaluateCondition(row, {...condition, operator})
EvaluateCondition(operator) ==
    /\ operator \notin DOMAIN condResults
    /\ CondCallsMade < MaxCondCalls
    /\ condResults' = condResults @@
          (operator :> evaluateCondition(condRow, ConditionOf(condProto, operator)))
    /\ UNCHANGED <<hostWestOfUTC, aiVars, lzVars, rfVars, gcVars, condRow, condProto, condSwapped, rgVars, evVars, chVars>>

\* the condition with its two bounds exchanged
SwappedOf(proto, operator) ==
    [column |-> proto.column, operator |-> operator,
     value |-> proto.value2, value2 |-> proto.value]

\* one call evaluateCondition(row, {...condition, operator, value: value2, value2: value})
EvaluateSwapped(operator) ==
    /\ operator \notin DOMAIN condSwapped
    /\ condProto.value2 # Undefined
    /\ CondCallsMade < MaxCondCalls
    /\ condSwapped' = condSwapped @@
          (operator :> evaluateCondition(condRow, SwappedOf(condProto, operator)))
    /\ UNCHANGED <<hostWestOfUTC, aiVars, lzVars, rfVars, gcVars, condRow, condProto, condResults, rgVars, evVars, chVars>>

NextCondition ==
    \/ \E operator \in Operators : EvaluateCondition(operator)
    \/ \E operator \in {"between", "not_between"} : EvaluateSwapped(operator)

SpecCondition == InitCondition /\ [][NextCondition]_vars

-----------------------------------------------------------------------------
(* Specification SpecRuleGroup: evaluateRuleGroup applied to one row *)

InitRuleGroup ==
    /\ hostWestOfUTC = FALSE
    /\ ReferenceIdle
    /\ GroupIdle
    /\ GeneratedIdle
    /\ BatchesIdle
    /\ ConditionIdle
    /\ EvaluationIdle
    /\ ChainIdle
    /\ rgData \in {[i \in 1..Len(ls) |-> RowOfLine(ls[i])] :
                     ls \in SeqsUpTo(RawLines, MaxGroupRows) \ {<<>>}}
    /\ rgRow \in {rgData[i] : i \in 1..Len(rgData)}
    /\ rgRules \in RuleGroups
    /\ rgCalls = <<>>

Reverse(seq) == [i \in 1..Len(seq) |-> seq[Len(seq) + 1 - i]]

\* the same group with every predicate list in the opposite order
RECURSIVE Reordered(_)
Reordered(ruleGroup) ==
    [ruleGroup EXCEPT
        !.conditions = Reverse(@),
        !.referenceConditions = Reverse(@),
        !.groupConditions = Reverse(@),
        !.groups = Reverse([i \in 1..Len(@) |-> Reordered(@[i])])]

RecordCall(name, output) ==
    /\ name \notin DOMAIN rgCalls
    /\ rgCalls' = rgCalls @@ (name :> output)
    /\ UNCHANGED <<hostWestOfUTC, aiVars, lzVars, rfVars, gcVars, condVars, rgData, rgRow, rgRules, evVars, chVars>>

\* evaluateRuleGroup(row, rules, referenceFiles, data) with the default, empty memo
CallWithEmptyMemo ==
    RecordCall("empty_memo",
               evaluateRuleGroup(rgRow, rgRules, ReferenceFiles, rgData, EmptyMemo))

\* the call evaluateRulesArray makes for a row, the memo filled beforehand
CallWithFilledMemo ==
    RecordCall("filled_memo",
               evaluateRuleGroup(rgRow, rgRules, ReferenceFiles, rgData,
                   ArrayPrecompute(rgData, getAllGroupConditions(rgRules), EmptyMemo)))

\* the same call on the group with its predicates in the opposite order
CallReordered ==
    RecordCall("reordered",
               evaluateRuleGroup(rgRow, Reordered(rgRules), ReferenceFiles, rgData,
                                 EmptyMemo))

NextRuleGroup == CallWithEmptyMemo \/ CallWithFilledMemo \/ CallReordered

SpecRuleGroup == InitRuleGroup /\ [][NextRuleGroup]_vars

-----------------------------------------------------------------------------
(* Specification SpecEval: evaluateRules over one dataset, held by a       *)
(* LazyCSVLoader and, row for row, by an array                             *)

\* number of rows of the dataset evaluateRules is applied to
MaxEvalRows == 3

Single(conditions, referenceConditions, groupConditions) ==
    Group(conditions, referenceConditions, groupConditions, "AND", <<>>, FALSE)

\* the rule trees evaluateRules is applied to
EvalRules ==
    {Single(<<CodeIsA>>, <<>>, <<>>),
     Single(<<AgeAtLeast10>>, <<InRef1>>, <<>>),
     Single(<<>>, <<>>, <<TwoRows>>),
     Single(<<CodeIsA>>, <<>>, <<TwoCodes>>),
     Single(<<>>, <<>>, <<AgeSumOver10, TwoRows>>),
     Single(<<>>, <<>>, <<TwoRows, EachCode>>),
     Group(<<CodeIsQ>>, <<>>, <<>>, "OR", <<NotOldInRef, CodeOrSum>>, FALSE),
     EmptyGroupNegated}

LoaderOf(lines) == [kind |-> "lazy", lines |-> <<Headers>> \o lines, headers |-> Headers]

\* the in-memory array holding the loader's rows in the loader's order
ArrayOf(loader) == [kind |-> "array", rows |-> toArray(loader, EmptyCaches).batch]

InitEval ==
    /\ hostWestOfUTC = FALSE
    /\ ReferenceIdle
    /\ GroupIdle
    /\ GeneratedIdle
    /\ BatchesIdle
    /\ ConditionIdle
    /\ RuleGroupIdle
    /\ ChainIdle
    /\ evLoader \in {LoaderOf(ls) : ls \in SeqsUpTo(RawLines, MaxEvalRows)}
    /\ evRules \in EvalRules
    /\ evOut = <<>>

RecordEvaluation(path, output, memo) ==
    /\ path \notin DOMAIN evOut
    /\ evOut' = evOut @@
          (path :> [result |-> output.result, caches |-> output.caches, memo |-> memo])
    /\ UNCHANGED <<hostWestOfUTC, aiVars, lzVars, rfVars, gcVars, condVars, rgVars, evLoader, evRules, chVars>>

\* evaluateRules(array, rules, referenceFiles); the memo is the one its
\* precomputation fills
EvaluateArray ==
    RecordEvaluation("array",
        evaluateRules(ArrayOf(evLoader), EmptyCaches, evRules, ReferenceFiles),
        ArrayPrecompute(ArrayOf(evLoader).rows, getAllGroupConditions(evRules),
                        EmptyMemo))

\* evaluateRules(loader, rules, referenceFiles) on a loader with empty caches
EvaluateLazy ==
    RecordEvaluation("lazy",
        evaluateRules(evLoader, EmptyCaches, evRules, ReferenceFiles),
        LazyPrecompute(evLoader, getAllGroupConditions(evRules),
                       [memo |-> EmptyMemo, caches |-> EmptyCaches]).memo)

NextEval == EvaluateArray \/ EvaluateLazy

SpecEval == InitEval /\ [][NextEval]_vars

-----------------------------------------------------------------------------
(* Specification SpecReference: evaluateReferenceCondition applied to the  *)
(* rows of a dataset (referenceEvaluator.ts)                                *)

\* number of rows the reference condition is applied to
MaxRefRows == 2

S_c == <<"c">>
S_spBsp == <<" ", "B", " ">>
S_x == <<"x">>
S_spX == <<" ", "X">>
S_y == <<"y">>
S_Y == <<"Y">>

\* the reference tables: one with rows, one without rows
RefTables ==
    << [id |-> "t1", rows |-> << [Code |-> S_A, Kind |-> S_x],
                                 [Code |-> S_spBsp, Kind |-> S_Y],
                                 [Code |-> S_empty, Kind |-> S_x] >>],
       [id |-> "t2", rows |-> <<>>] >>

\* a row without the condition's column, and rows holding each sample value
RefRows ==
    {[PatientId |-> S_P]}
        \cup {[PatientId |-> S_P, Code |-> v] :
                v \in {S_empty, S_blank, S_a, S_A, S_b, S_c}}

RefConditions ==
    {[type |-> "reference_match", column |-> "Code", referenceFileId |-> id,
      referenceColumn |-> referenceColumn, filterColumn |-> f[1], filterValue |-> f[2]] :
        id \in {"t1", "t2", "gone"},
        referenceColumn \in {"Code", "Name"},
        f \in {<<NoColumn, S_empty>>, <<"Kind", S_spX>>, <<"Kind", S_y>>,
               <<"Kind", S_empty>>}}

ReferenceTypes == {"reference_match", "reference_not_match"}

InitReference ==
    /\ hostWestOfUTC = FALSE
    /\ ConditionIdle
    /\ RuleGroupIdle
    /\ EvaluationIdle
    /\ ChainIdle
    /\ GroupIdle
    /\ GeneratedIdle
    /\ BatchesIdle
    /\ rfData \in SeqsUpTo(RefRows, MaxRefRows) \ {<<>>}
    /\ rfCondition \in RefConditions
    /\ rfResults = <<>>

\* the condition of the given type evaluated on every row, in row order
EvaluateReference(type) ==
    /\ type \notin DOMAIN rfResults
    /\ rfResults' = rfResults @@
          (type :> [i \in 1..Len(rfData) |->
                      evaluateReferenceCondition(rfData[i],
                          [rfCondition EXCEPT !.type = type], RefTables)])
    /\ UNCHANGED <<hostWestOfUTC, aiVars, lzVars, condVars, rgVars, evVars, chVars, gcVars,
                   rfData, rfCondition>>

NextReference == \E type \in ReferenceTypes : EvaluateReference(type)

SpecReference == InitReference /\ [][NextReference]_vars

-----------------------------------------------------------------------------
(* Specification SpecGroup: evaluateGroupCondition, calculateDistinctCount *)
(* and the group-condition verdict of evaluateRuleGroup on one dataset      *)
(* (groupEvaluator.ts, ruleEvaluator.ts)                                    *)

\* number of rows of the dataset
MaxGcRows == 3

S_spP == <<" ", "P">>

GcRow(patientId, code, visit, age) ==
    [PatientId |-> patientId, Code |-> code, Visit |-> visit, Age |-> age]

\* rows with a key, an untrimmed key, a blank key and no key column; the Age
\* of one row is text and that of another is empty
GcRows ==
    {GcRow(S_P, S_A, S_x, S_5),
     GcRow(S_spP, S_B, S_x, S_10),
     GcRow(S_P, S_A, S_y, S_a),
     GcRow(S_blank, S_A, S_x, S_5),
     GcRow(S_Q, S_A, S_empty, S_empty),
     [Code |-> S_B, Visit |-> S_y, Age |-> S_5]}

GcConditions ==
    {GroupCond("g", "distinct_count", "Code", "greater_equal", 2, "keep_matching_groups"),
     GroupCond("g", "distinct_count", "Code", "greater_than", 0, "keep_matching_groups"),
     GroupCond("g", "distinct_count", "Code", "equals", 1, "keep_matching_groups"),
     GroupCond("g", "count", "Code", "greater_equal", 2, "keep_matching_groups"),
     GroupCond("g", "sum", "Age", "greater_than", 10, "keep_matching_groups"),
     GroupCond("g", "avg", "Age", "less_equal", 7, "keep_matching_groups"),
     GroupCond("g", "min", "Age", "less_than", 7, "keep_matching_groups"),
     GroupCond("g", "max", "Age", "not_equals", 10, "keep_matching_groups")}

\* condition.withinDistinct: unset, or the constraint column
WithinDistinctChoices == {NoColumn, "Visit"}

GroupActions == {"keep_matching_groups", "exclude_matching_groups"}

InitGroup ==
    /\ hostWestOfUTC = FALSE
    /\ ConditionIdle
    /\ RuleGroupIdle
    /\ EvaluationIdle
    /\ ChainIdle
    /\ ReferenceIdle
    /\ GeneratedIdle
    /\ BatchesIdle
    /\ gcData \in SeqsUpTo(GcRows, MaxGcRows)
    /\ gcCondition \in GcConditions
    /\ gcMatching = <<>>
    /\ gcPassed = <<>>
    /\ gcDistinct = <<>>

\* evaluateGroupCondition(data, {...condition, withinDistinct})
EvaluateGroup(withinDistinct) ==
    /\ withinDistinct \notin DOMAIN gcMatching
    /\ gcMatching' = gcMatching @@
          (withinDistinct :>
              evaluateGroupCondition(gcData,
                  [gcCondition EXCEPT !.withinDistinct = withinDistinct]))
    /\ UNCHANGED <<hostWestOfUTC, aiVars, lzVars, condVars, rgVars, evVars, chVars, rfVars,
                   gcData, gcCondition, gcPassed, gcDistinct>>

\* data.filter's callback on every row: evaluateRuleGroup(row, rules, [], data)
\* for rules holding the group condition alone, with the given action
EvaluateRows(action) ==
    /\ action \notin DOMAIN gcPassed
    /\ gcPassed' = gcPassed @@
          (action :> [i \in 1..Len(gcData) |->
              evaluateRuleGroup(gcData[i],
                  Single(<<>>, <<>>, <<[gcCondition EXCEPT !.action = action]>>),
                  <<>>, gcData, EmptyMemo).result])
    /\ UNCHANGED <<hostWestOfUTC, aiVars, lzVars, condVars, rgVars, evVars, chVars, rfVars,
                   gcData, gcCondition, gcMatching, gcDistinct>>

\* calculateDistinctCount(groupRows, {...condition, withinDistinct}) for the
\* rows of every group of the dataset; evaluateGroupCondition calls it for
\* the aggregation distinct_count only
CalculateDistinctCount(withinDistinct) ==
    /\ gcCondition.aggregationType = "distinct_count"
    /\ withinDistinct \notin DOMAIN gcDistinct
    /\ gcDistinct' = gcDistinct @@
          (withinDistinct :>
              [groupKey \in GroupKeys(gcData, gcCondition.groupBy) |->
                  calculateDistinctCount(
                      RowsOfGroup(gcData, gcCondition.groupBy, groupKey),
                      [gcCondition EXCEPT !.withinDistinct = withinDistinct])])
    /\ UNCHANGED <<hostWestOfUTC, aiVars, lzVars, condVars, rgVars, evVars, chVars, rfVars,
                   gcData, gcCondition, gcMatching, gcPassed>>

NextGroup ==
    \/ \E withinDistinct \in WithinDistinctChoices : EvaluateGroup(withinDistinct)
    \/ \E action \in GroupActions : EvaluateRows(action)
    \/ \E withinDistinct \in WithinDistinctChoices : CalculateDistinctCount(withinDistinct)

SpecGroup == InitGroup /\ [][NextGroup]_vars

-----------------------------------------------------------------------------
(* Specification Spec: handleExecuteChain running executeWorkflowChain     *)
(* (workflowChainStorage.ts, WorkflowChainManager.tsx)                     *)

\* getWorkflows(): the stored workflows
StoredWorkflows ==
    << [id |-> "w1", name |-> "Code A", rules |-> Single(<<CodeIsA>>, <<>>, <<>>)],
       [id |-> "w2", name |-> "Age 10+", rules |-> Single(<<AgeAtLeast10>>, <<>>, <<>>)],
       [id |-> "w3", name |-> "Two rows", rules |-> Single(<<>>, <<>>, <<TwoRows>>)],
       [id |-> "w4", name |-> "One row", rules |-> Single(<<>>, <<>>, <<OneRow>>)] >>

\* the workflow ids a step may hold; "gone" is the id of a deleted workflow
StepWorkflowIds == {"w1", "w2", "w3", "w4", "gone"}

\* the name the step stored when the workflow was added to the chain
NameWhenAdded(workflowId) ==
    CASE workflowId = "w1" -> "Code A"
      [] workflowId = "w2" -> "Age 10+"
      [] workflowId = "w3" -> "Two rows"
      [] workflowId = "w4" -> "One row"
      [] OTHER -> "Old workflow"

\* number of steps of the chain, and of rows of the initial dataset
MaxSteps == 2
MaxChainRows == 3

\* displayLimit of parseCSVWithLimits, scaled down
DisplayLimit == 1

StepsOf(ids) ==
    [k \in 1..Len(ids) |->
        [id |-> k, workflowId |-> ids[k], workflowName |-> NameWhenAdded(ids[k])]]

\* what parseCSVWithLimits returns: the display rows, and all rows as an
\* array or, for a very large file, as a LazyCSVLoader
CSVDataOf(loader, kind) ==
    [rows |-> SubSeq(ArrayOf(loader).rows, 1, Min(DisplayLimit, LoaderLength(loader))),
     allRows |-> IF kind = "lazy" THEN loader ELSE ArrayOf(loader)]

\* data.length of an array or of a loader
DataLength(data) == IF IsLazyLoader(data) THEN LoaderLength(data) ELSE Len(data.rows)

UiInit ==
    [executionProgress |-> 0, chainExecuted |-> None, savedChain |-> None,
     alert |-> None]

\* the state when executeWorkflowChain enters its loop
Init ==
    /\ hostWestOfUTC = FALSE
    /\ ReferenceIdle
    /\ GroupIdle
    /\ GeneratedIdle
    /\ BatchesIdle
    /\ ConditionIdle
    /\ RuleGroupIdle
    /\ EvaluationIdle
    /\ chChain \in {StepsOf(ids) : ids \in SeqsUpTo(StepWorkflowIds, MaxSteps)}
    /\ chInitialData \in
          {CSVDataOf(LoaderOf(ls), kind) :
              ls \in SeqsUpTo(RawLines, MaxChainRows), kind \in {"array", "lazy"}}
    /\ chCaches = EmptyCaches
    /\ chPc = "loop"
    /\ chI = 0
    /\ chCurrentData = chInitialData.allRows
    /\ chStepResults = <<>>
    /\ chLog = <<>>
    /\ chOutcome = None
    /\ uiState = UiInit

\* Math.round((i / n) * 100) for 0 <= i < n
\* the percentage of the steps completed once the coming step is done
MathRoundPercent_afterStep(i, n) == (200 * (i + 1) + n) \div (2 * n)

\* Math.round((i / n) * 100)
MathRoundPercent(i, n) == (200 * i + n) \div (2 * n)

ProgressCall(value) == [type |-> "onProgress", value |-> value]
FindCall(i) == [type |-> "find", step |-> i]
EvaluateCall(i, data) == [type |-> "evaluateRules", step |-> i, data |-> data]

\* stepResultData of lines 93 to 103, without the clock readings
StepResultData(step, workflow, inputRecordCount, stepResult) ==
    [stepId |-> step.id,
     workflowId |-> workflow.id,
     workflowName |-> workflow.name,
     inputRecords |-> inputRecordCount,
     outputRecords |-> stepResult.matchedCount,
     results |-> stepResult]

\* CompleteStep without the break on an empty result
CompleteStep_noBreak(step, workflow, evaluated) ==
    /\ chStepResults' = Append(chStepResults,
          StepResultData(step, workflow, DataLength(chCurrentData), evaluated.result))
    /\ chCurrentData' = [kind |-> "array", rows |-> evaluated.result.matchedRows]
    /\ chCaches' = evaluated.caches
    /\ chPc' = "loop"
    /\ chI' = chI + 1

\* CompleteStep that leaves currentData as it was
CompleteStep_sameData(step, workflow, evaluated) ==
    /\ chStepResults' = Append(chStepResults,
          StepResultData(step, workflow, DataLength(chCurrentData), evaluated.result))
    /\ chCurrentData' = chCurrentData
    /\ chCaches' = evaluated.caches
    /\ IF evaluated.result.matchedCount = 0
       THEN chPc' = "finish" /\ chI' = chI
       ELSE chPc' = "loop" /\ chI' = chI + 1

\* CompleteStep that hands the initial dataset to the next step
CompleteStep_initialData(step, workflow, evaluated) ==
    /\ chStepResults' = Append(chStepResults,
          StepResultData(step, workflow, DataLength(chCurrentData), evaluated.result))
    /\ chCurrentData' = chInitialData.allRows
    /\ chCaches' = evaluated.caches
    /\ IF evaluated.result.matchedCount = 0
       THEN chPc' = "finish" /\ chI' = chI
       ELSE chPc' = "loop" /\ chI' = chI + 1

\* the rest of an iteration whose workflow was found, evaluated the outcome
\* of evaluateRules
CompleteStep(step, workflow, evaluated) ==
    /\ chStepResults' = Append(chStepResults,
          StepResultData(step, workflow, DataLength(chCurrentData), evaluated.result))
    /\ chCurrentData' = [kind |-> "array", rows |-> evaluated.result.matchedRows]
    /\ chCaches' = evaluated.caches
    /\ IF evaluated.result.matchedCount = 0
       THEN chPc' = "finish" /\ chI' = chI
       ELSE chPc' = "loop" /\ chI' = chI + 1

\* one iteration of the loop whose workflow is found
StepFound ==
    /\ chPc = "loop"
    /\ chI < Len(chChain)
    /\ FindIndexById(StoredWorkflows, chChain[chI + 1].workflowId, 1) # 0
    /\ uiState' = [uiState EXCEPT
                     !.executionProgress = MathRoundPercent(chI, Len(chChain))]
    /\ chLog' = chLog \o
          << ProgressCall(MathRoundPercent(chI, Len(chChain))),
             FindCall(chI),
             EvaluateCall(chI, chCurrentData) >>
    /\ \E workflow \in {StoredWorkflows[FindIndexById(StoredWorkflows,
                                               chChain[chI + 1].workflowId, 1)]} :
       \E evaluated \in {evaluateRules(chCurrentData, chCaches, workflow.rules,
                                       ReferenceFiles)} :
          CompleteStep(chChain[chI + 1], workflow, evaluated)
    /\ UNCHANGED <<hostWestOfUTC, aiVars, lzVars, rfVars, gcVars, condVars, rgVars, evVars, chChain, chInitialData,
                   chOutcome>>

\* the error without the step's workflow name
WorkflowNotFound_unnamed(step) ==
    [kind |-> "rejected", message |-> <<"Workflow not found">>]

\* new Error(`Workflow not found: ${step.workflowName}`)
WorkflowNotFound(step) ==
    [kind |-> "rejected", message |-> <<"Workflow not found: ", step.workflowName>>]

\* the iteration whose workflow is not found: the throw ends the function
StepNotFound ==
    /\ chPc = "loop"
    /\ chI < Len(chChain)
    /\ FindIndexById(StoredWorkflows, chChain[chI + 1].workflowId, 1) = 0
    /\ uiState' = [uiState EXCEPT
                     !.executionProgress = MathRoundPercent(chI, Len(chChain))]
    /\ chLog' = chLog \o
          << ProgressCall(MathRoundPercent(chI, Len(chChain))), FindCall(chI) >>
    /\ chOutcome' = WorkflowNotFound(chChain[chI + 1])
    /\ chPc' = "thrown"
    /\ UNCHANGED <<hostWestOfUTC, aiVars, lzVars, rfVars, gcVars, condVars, rgVars, evVars, chChain, chInitialData,
                   chCaches, chI, chCurrentData, chStepResults>>

\* the count taken from the display rows
finalInputCount_displayRows(initialData) == Len(initialData.rows)

\* initialData.allRows?.length || initialData.rows.length
finalInputCount(initialData) ==
    IF DataLength(initialData.allRows) # 0 THEN DataLength(initialData.allRows)
    ELSE Len(initialData.rows)

\* Array.isArray(currentData) ? currentData : []
finalMatchedRows(currentData) ==
    IF IsLazyLoader(currentData) THEN <<>> ELSE currentData.rows

\* finalResults of lines 123 to 131
finalResults(initialData, currentData) ==
    [matchedRows |-> finalMatchedRows(currentData),
     totalRows |-> finalInputCount(initialData),
     matchedCount |-> Len(finalMatchedRows(currentData)),
     percentage |-> Percentage(Len(finalMatchedRows(currentData)),
                               finalInputCount(initialData))]

\* after the loop: the last progress report and the returned result
Finish ==
    /\ chPc = "finish" \/ (chPc = "loop" /\ chI >= Len(chChain))
    /\ uiState' = [uiState EXCEPT !.executionProgress = 100]
    /\ chLog' = Append(chLog, ProgressCall(100))
    /\ chOutcome' = [kind |-> "resolved",
                     steps |-> chStepResults,
                     finalResults |-> finalResults(chInitialData, chCurrentData)]
    /\ chPc' = "returned"
    /\ UNCHANGED <<hostWestOfUTC, aiVars, lzVars, rfVars, gcVars, condVars, rgVars, evVars, chChain, chInitialData,
                   chCaches, chI, chCurrentData, chStepResults>>

\* result.steps[index]?.results and the like
StepField(steps, index, field) ==
    IF index <= Len(steps) THEN steps[index][field] ELSE Undefined

\* updatedChain of handleExecuteChain, without the clock readings
updatedChain(chain, result) ==
    [kind |-> "chain",
     finalResults |-> result.finalResults,
     workflows |->
        [index \in 1..Len(chain) |->
            [id |-> chain[index].id,
             workflowId |-> chain[index].workflowId,
             workflowName |-> chain[index].workflowName,
             results |-> StepField(result.steps, index, "results"),
             inputRecords |-> StepField(result.steps, index, "inputRecords"),
             outputRecords |-> StepField(result.steps, index, "outputRecords")]]]

\* handleExecuteChain after the await resolves: the try block, then finally
HandleResolved ==
    /\ chPc = "returned"
    /\ uiState' = [executionProgress |-> 0,
                   chainExecuted |-> chOutcome,
                   savedChain |-> updatedChain(chChain, chOutcome),
                   alert |-> None]
    /\ chPc' = "done"
    /\ UNCHANGED <<hostWestOfUTC, aiVars, lzVars, rfVars, gcVars, condVars, rgVars, evVars, chChain, chInitialData,
                   chCaches, chI, chCurrentData, chStepResults, chLog, chOutcome>>

\* handleExecuteChain after the await rejects: the catch block, then finally
HandleRejected ==
    /\ chPc = "thrown"
    /\ uiState' = [executionProgress |-> 0,
                   chainExecuted |-> None,
                   savedChain |-> None,
                   alert |-> [kind |-> "alert",
                              message |-> <<"Chain execution failed: ">>
                                            \o chOutcome.message]]
    /\ chPc' = "done"
    /\ UNCHANGED <<hostWestOfUTC, aiVars, lzVars, rfVars, gcVars, condVars, rgVars, evVars, chChain, chInitialData,
                   chCaches, chI, chCurrentData, chStepResults, chLog, chOutcome>>

Next == StepFound \/ StepNotFound \/ Finish \/ HandleResolved \/ HandleRejected

Spec == Init /\ [][Next]_vars

-----------------------------------------------------------------------------
(* Claims about evaluateCondition *)

ComplementPairs ==
    {<<"equals", "not_equals">>, <<"greater_than", "less_equal">>,
     <<"less_than", "greater_equal">>}

CellIsEmpty(row, column) ==
    Get(row, column) = Undefined \/ Trim(Get(row, column)) = <<>>

\* C10 as stated: on every row, each operator of a complement pair is true
\* exactly when the other operator of the pair is false.
C10_ComplementOnEveryRow ==
    \A pr \in ComplementPairs :
        (pr[1] \in DOMAIN condResults /\ pr[2] \in DOMAIN condResults)
            => (condResults[pr[1]] <=> ~condResults[pr[2]])

\* C10 amended: on every row whose column value is not empty (missing, null
\* or white space only), each operator of a complement pair is true exactly
\* when the other operator of the pair is false.
C10_ComplementOnNonEmptyCell ==
    \A pr \in ComplementPairs :
        (/\ pr[1] \in DOMAIN condResults
         /\ pr[2] \in DOMAIN condResults
         /\ ~CellIsEmpty(condRow, condProto.column))
            => (condResults[pr[1]] <=> ~condResults[pr[2]])

\* both operators of a pair were evaluated on a date cell against a date
\* target, and the first one held
C10_Witness ==
    /\ ~CellIsEmpty(condRow, condProto.column)
    /\ isDateLike(Get(condRow, condProto.column)) /\ isDateLike(condProto.value)
    /\ DOMAIN condResults = {"greater_than", "less_equal"}
    /\ condResults["greater_than"]

-----------------------------------------------------------------------------
(* Claims about evaluateRuleGroup, under SpecRuleGroup *)

IsEmptyGroup(ruleGroup) ==
    /\ ruleGroup.conditions = <<>>
    /\ ruleGroup.referenceConditions = <<>>
    /\ ruleGroup.groupConditions = <<>>
    /\ ruleGroup.groups = <<>>

\* C1 as stated: for every row, evaluateRuleGroup on a group with no
\* conditions, no reference conditions, no group conditions and no child
\* groups returns true when the group is not negated and false when it is
\* negated.
C1_EmptyGroupFollowsNegation ==
    \A call \in DOMAIN rgCalls :
        IsEmptyGroup(rgRules) => (rgCalls[call].result = ~rgRules.negated)

\* the results of the predicates of the group, each computed on its own: the
\* leaf and reference conditions by their evaluators, a group condition by a
\* direct evaluateGroupCondition over the dataset, a child group by its own
\* evaluation
PredicateResults(row, ruleGroup, data) ==
    {evaluateCondition(row, ruleGroup.conditions[i]) :
        i \in 1..Len(ruleGroup.conditions)}
    \cup {evaluateReferenceCondition(row, ruleGroup.referenceConditions[i],
                                     ReferenceFiles) :
        i \in 1..Len(ruleGroup.referenceConditions)}
    \cup {groupConditionResult(row, ruleGroup.groupConditions[i],
              evaluateGroupCondition(data, ruleGroup.groupConditions[i])) :
        i \in 1..Len(ruleGroup.groupConditions)}
    \cup {evaluateRuleGroup(row, ruleGroup.groups[i], ReferenceFiles, data,
                            EmptyMemo).result :
        i \in 1..Len(ruleGroup.groups)}

\* C of the claim: the conjunction or disjunction of the predicates' results
CombinedOf(row, ruleGroup, data) ==
    IF ruleGroup.logic = "AND" THEN FALSE \notin PredicateResults(row, ruleGroup, data)
    ELSE TRUE \in PredicateResults(row, ruleGroup, data)

HasFalseLeaf(row, ruleGroup) ==
    \E i \in 1..Len(ruleGroup.conditions) :
        ~evaluateCondition(row, ruleGroup.conditions[i])

\* C9: for a group with at least one predicate, every call of
\* evaluateRuleGroup (with an empty memo, with a filled memo, and on the group
\* with its predicates in the opposite order) returns negated XOR C, C the
\* conjunction (AND) or disjunction (OR) of the results of all its predicates;
\* and under AND with a false leaf C is false, so the call returns negated.
C9_NegatedXorCombined ==
    \A call \in DOMAIN rgCalls :
        ~IsEmptyGroup(rgRules) =>
            /\ rgCalls[call].result = (rgRules.negated # CombinedOf(rgRow, rgRules, rgData))
            /\ (rgRules.logic = "AND" /\ HasFalseLeaf(rgRow, rgRules))
                  => (rgCalls[call].result = rgRules.negated)

\* a negated AND group with a false leaf, a true leaf, group conditions and
\* child groups was evaluated as given and in the opposite order
C9_Witness ==
    /\ rgRules.logic = "AND" /\ rgRules.negated
    /\ Len(rgRules.conditions) = 2
    /\ ~evaluateCondition(rgRow, rgRules.conditions[1])
    /\ evaluateCondition(rgRow, rgRules.conditions[2])
    /\ rgRules.groupConditions # <<>> /\ Len(rgRules.groups) = 2
    /\ DOMAIN rgCalls = {"empty_memo", "reordered"}
    /\ rgCalls["reordered"].result

-----------------------------------------------------------------------------
(* Claims about evaluateRules, under SpecEval *)

\* the fields of an EvaluationResult the two paths are compared on
Compared(result) ==
    [matchedRows |-> result.matchedRows, matchedCount |-> result.matchedCount,
     groupStats |-> result.groupStats]

\* C7 as stated: evaluateRules over a LazyCSVLoader returns the same
\* matchedRows, matchedCount and groupStats as evaluateRules over an array
\* holding the same rows in the same order, for every rule tree.
C7_LazyEqualsArray ==
    ("array" \in DOMAIN evOut /\ "lazy" \in DOMAIN evOut)
        => (Compared(evOut["lazy"].result) = Compared(evOut["array"].result))

\* C8 as stated: for every group condition of the rules, the matching-key set
\* in the memo that evaluateRules pre-populates, on either path, is the set a
\* direct evaluateGroupCondition(dataset, condition) call returns.
C8_MemoEqualsDirect ==
    \A path \in DOMAIN evOut :
        \A i \in 1..Len(getAllGroupConditions(evRules)) :
            evOut[path].memo[getAllGroupConditions(evRules)[i].id]
                = evaluateGroupCondition(ArrayOf(evLoader).rows,
                                         getAllGroupConditions(evRules)[i])

\* the rows of the dataset for which evaluateRuleGroup(row, rules,
\* referenceFiles, dataset) is true, in source order
TrueRows ==
    filterRows(ArrayOf(evLoader).rows, evRules, ReferenceFiles,
               ArrayOf(evLoader).rows, EmptyMemo)

\* C12 as stated: on the unbatched array path, the batched array path and the
\* lazy path, matchedRows is exactly the subsequence of the dataset's rows for
\* which evaluateRuleGroup is true, in source order; no row is dropped,
\* duplicated or reordered at a batch boundary.
C12_MatchedRowsAreTheTrueRows ==
    \A path \in DOMAIN evOut : evOut[path].result.matchedRows = TrueRows

\* C27 as stated: in every EvaluationResult that carries groupStats,
\* matchedGroups <= totalGroups and groupPercentage lies between 0 and 100,
\* for every rule tree, trees whose group conditions use different groupBy
\* columns included, on the array path and on the lazy path.
C27_GroupStatsBounds ==
    \A path \in DOMAIN evOut :
        evOut[path].result.groupStats # NoGroupStats =>
            /\ evOut[path].result.groupStats[1].matchedGroups
                  <= evOut[path].result.groupStats[1].totalGroups
            /\ evOut[path].result.groupStats[1].groupPercentage.num >= 0
            /\ evOut[path].result.groupStats[1].groupPercentage.num
                  <= 100 * evOut[path].result.groupStats[1].groupPercentage.den

-----------------------------------------------------------------------------
(* Claims about executeWorkflowChain, under Spec *)

IsEvaluateCall(call) == call.type = "evaluateRules"
IsFindCall(call) == call.type = "find"

\* the evaluateRules calls and the workflows.find calls made so far, in order
EvaluateCalls == SelectSeq(chLog, IsEvaluateCall)
FindCalls == SelectSeq(chLog, IsFindCall)

IsStored(workflowId) == FindIndexById(StoredWorkflows, workflowId, 1) # 0

\* C2: once a step has produced zero matched rows no later step is evaluated;
\* the returned steps are exactly the steps executed, the empty step being the
\* last of them, and finalResults shows zero matched records.
C2_StopsAtEmptyStep ==
    /\ Len(EvaluateCalls) = Len(chStepResults)
    /\ \A k \in 1..Len(chStepResults) :
          chStepResults[k].results.matchedRows = <<>>
              => /\ k = Len(chStepResults)
                 /\ chPc # "loop"
                 /\ chOutcome.kind # "rejected"
                 /\ chOutcome.kind = "resolved"
                       => /\ chOutcome.steps = chStepResults
                          /\ Len(chOutcome.steps) = k
                          /\ chOutcome.finalResults.matchedCount = 0
                          /\ chOutcome.finalResults.matchedRows = <<>>

\* a chain [A, B] with both workflows stored, run on a non-empty dataset,
\* returned one step because A matched nothing
C2_Witness ==
    /\ chOutcome.kind = "resolved"
    /\ Len(chChain) = 2
    /\ IsStored(chChain[1].workflowId) /\ IsStored(chChain[2].workflowId)
    /\ DataLength(chInitialData.allRows) > 0
    /\ Len(chOutcome.steps) = 1
    /\ chOutcome.steps[1].outputRecords = 0

\* C3: step 1 is evaluated over the chain's initial rows and every later step
\* over exactly the previous step's matchedRows; steps[0].inputRecords is the
\* initial row count, steps[k].inputRecords = steps[k-1].outputRecords, and
\* finalResults.matchedRows are the matchedRows of the last executed step.
C3_StepsConsumePreviousOutput ==
    /\ Len(EvaluateCalls) = Len(chStepResults)
    /\ \A k \in 1..Len(chStepResults) :
          IF k = 1
          THEN /\ EvaluateCalls[1].data = chInitialData.allRows
               /\ chStepResults[1].inputRecords = DataLength(chInitialData.allRows)
          ELSE /\ EvaluateCalls[k].data =
                      [kind |-> "array",
                       rows |-> chStepResults[k - 1].results.matchedRows]
               /\ chStepResults[k].inputRecords = chStepResults[k - 1].outputRecords
    /\ (chOutcome.kind = "resolved" /\ chOutcome.steps # <<>>)
          => chOutcome.finalResults.matchedRows
                = chOutcome.steps[Len(chOutcome.steps)].results.matchedRows

\* a two-step chain over a loader returned, its second step having dropped
\* rows the first step passed on
C3_Witness ==
    /\ chOutcome.kind = "resolved"
    /\ IsLazyLoader(chInitialData.allRows)
    /\ Len(chOutcome.steps) = 2
    /\ chOutcome.steps[1].outputRecords < chOutcome.steps[1].inputRecords
    /\ chOutcome.steps[2].outputRecords < chOutcome.steps[2].inputRecords
    /\ chOutcome.steps[2].outputRecords > 0

\* C4: a step whose workflow id is not stored makes executeWorkflowChain fail
\* with a workflow-not-found error that names the step's workflow; neither
\* that step nor a later one is evaluated, and the lookup is made once.
C4_MissingWorkflowFails ==
    /\ \A k \in 1..Len(FindCalls) :
          ~IsStored(chChain[FindCalls[k].step + 1].workflowId)
              => /\ k = Len(FindCalls)
                 /\ chOutcome.kind = "rejected"
                 /\ chI = FindCalls[k].step
    /\ chOutcome.kind = "rejected"
          => /\ ~IsStored(chChain[chI + 1].workflowId)
             /\ chOutcome.message[1] = "Workflow not found: "
             /\ chOutcome.message[Len(chOutcome.message)] = chChain[chI + 1].workflowName
             /\ \A k \in 1..Len(EvaluateCalls) : EvaluateCalls[k].step < chI
             /\ Cardinality({k \in 1..Len(FindCalls) : FindCalls[k].step = chI}) = 1
             /\ uiState.chainExecuted.kind = "none"

\* a chain whose second step has a deleted workflow failed after its first
\* step had completed, and the component showed the error
C4_Witness ==
    /\ chPc = "done"
    /\ chOutcome.kind = "rejected"
    /\ chI = 1
    /\ Len(chStepResults) = 1
    /\ uiState.alert.kind = "alert"

\* C5 as stated: when the chain fails at step k because its workflow is
\* missing, the results of the completed steps 1..k-1 are returned to the
\* caller alongside the failure.
C5_CompletedStepsReturned ==
    (chPc = "done" /\ chOutcome.kind = "rejected" /\ chStepResults # <<>>)
        => \/ "steps" \in DOMAIN chOutcome
           \/ uiState.chainExecuted.kind # "none"
           \/ uiState.savedChain.kind # "none"

\* matchedCount, totalRows and percentage of a result agree with its
\* matchedRows and with the number of rows evaluated
Consistent(result, rowCount) ==
    /\ result.matchedCount = Len(result.matchedRows)
    /\ result.totalRows = rowCount
    /\ result.percentage.den > 0
    /\ IF rowCount > 0
       THEN result.percentage.num * rowCount
                = 100 * result.matchedCount * result.percentage.den
       ELSE result.percentage.num = 0

\* C6: every EvaluationResult evaluateRules returned to the chain, on the
\* array path and on the lazy path, and the chain's finalResults, have
\* matchedCount = length of matchedRows, totalRows = number of rows evaluated
\* (for the chain, the rows handed to step 1), and percentage =
\* 100 * matchedCount / totalRows when totalRows > 0, else 0.
C6_CountsAndPercentage ==
    /\ \A k \in 1..Len(chStepResults) :
          Consistent(chStepResults[k].results, DataLength(EvaluateCalls[k].data))
    /\ chOutcome.kind = "resolved"
          => Consistent(chOutcome.finalResults, DataLength(chInitialData.allRows))

\* a chain returned after a lazy step and a batched array step, with a final
\* percentage strictly between 0 and 100
C6_Witness ==
    /\ chOutcome.kind = "resolved"
    /\ Len(chOutcome.steps) = 2
    /\ IsLazyLoader(EvaluateCalls[1].data)
    /\ DataLength(EvaluateCalls[2].data) > LargeDataThreshold
    /\ chOutcome.finalResults.matchedCount > 0
    /\ chOutcome.finalResults.matchedCount < chOutcome.finalResults.totalRows

-----------------------------------------------------------------------------
(* Further claims about evaluateCondition, under SpecCondition *)

\* a bound that is a date: date-like and read by parseDate
IsDateBound(v) == v # Undefined /\ isDateLike(v) /\ parseDate(v).valid

\* a bound that is a number and not date-like
IsNumericBound(v) ==
    v # Undefined /\ ~isDateLike(v) /\ ~IsNaN(ParseFloat(JsString(v)))

BoundsOperators == {"between", "not_between"}

\* C11 as stated: for every row and every pair of bounds a, b each of which is
\* a numeric or a date value, between and not_between return the same result
\* for value = a, value2 = b as for value = b, value2 = a.
C11_SwappedBoundsAnyKinds ==
    \A operator \in BoundsOperators :
        (/\ operator \in DOMAIN condResults
         /\ operator \in DOMAIN condSwapped
         /\ IsDateBound(condProto.value) \/ IsNumericBound(condProto.value)
         /\ IsDateBound(condProto.value2) \/ IsNumericBound(condProto.value2))
            => (condResults[operator] = condSwapped[operator])

\* C11 amended: for every row and every pair of bounds a, b that are both
\* numeric values or both date values, between and not_between return the
\* same result for value = a, value2 = b as for value = b, value2 = a.
C11_SwappedBoundsSameKind ==
    \A operator \in BoundsOperators :
        (/\ operator \in DOMAIN condResults
         /\ operator \in DOMAIN condSwapped
         /\ \/ IsDateBound(condProto.value) /\ IsDateBound(condProto.value2)
            \/ IsNumericBound(condProto.value) /\ IsNumericBound(condProto.value2))
            => (condResults[operator] = condSwapped[operator])

\* between was evaluated both ways round on a date cell lying between two
\* date bounds, and held
C11_Witness ==
    /\ IsDateBound(condProto.value) /\ IsDateBound(condProto.value2)
    /\ isDateLike(Get(condRow, condProto.column))
    /\ "between" \in DOMAIN condResults /\ "between" \in DOMAIN condSwapped
    /\ condResults["between"] /\ condSwapped["between"]

\* the values onProgress was called with, in call order
IsProgressCall(call) == call.type = "onProgress"
ProgressValues == [k \in 1..Len(SelectSeq(chLog, IsProgressCall)) |->
                      SelectSeq(chLog, IsProgressCall)[k].value]

\* v is 100 * i / n rounded to the nearest integer, halves upwards
IsRounded(v, i, n) == 2 * n * v - n <= 200 * i /\ 200 * i < 2 * n * v + n

\* C13: immediately before step i + 1 begins executeWorkflowChain reports
\* round(100 * i / n), i the number of completed steps and n the number of
\* steps; the reported sequence is non-decreasing; every execution that
\* returns a result, one stopped early on zero records included, reports 100
\* last.
C13_ProgressReports ==
    /\ \A k \in 1..Len(chLog) :
          IsFindCall(chLog[k]) =>
             /\ k > 1
             /\ IsProgressCall(chLog[k - 1])
             /\ IsRounded(chLog[k - 1].value, chLog[k].step, Len(chChain))
    /\ \A k \in 1..Len(chLog) :
          (IsProgressCall(chLog[k]) /\ chLog[k].value # 100)
             => k < Len(chLog) /\ IsFindCall(chLog[k + 1])
    /\ \A j, k \in 1..Len(ProgressValues) :
          j <= k => ProgressValues[j] <= ProgressValues[k]
    /\ chOutcome.kind = "resolved" =>
          /\ Len(chLog) > 0
          /\ chLog[Len(chLog)] = ProgressCall(100)

\* a chain of two steps stopped on zero records after its first step, having
\* reported 0 and then 100
C13_Witness ==
    /\ chOutcome.kind = "resolved"
    /\ Len(chChain) = 2
    /\ Len(chOutcome.steps) = 1
    /\ ProgressValues = <<0, 100>>

-----------------------------------------------------------------------------
(* Claims about evaluateReferenceCondition, under SpecReference *)

\* the referenced table, where referenceFileId names one
TableNamed(id) == {k \in 1..Len(RefTables) : RefTables[k].id = id}
TableExists == TableNamed(rfCondition.referenceFileId) # {}
TableRows ==
    RefTables[CHOOSE k \in TableNamed(rfCondition.referenceFileId) : TRUE].rows

\* the row's value in the condition's column is missing or whitespace-only
RowValueEmpty(row) ==
    rfCondition.column \notin DOMAIN row \/ Trim(row[rfCondition.column]) = <<>>

\* C14: when referenceFileId names no table the result is false, for both
\* types and for every row, rows with an empty value included; every row of
\* the dataset gets its result.
C14_AbsentTableNeverMatches ==
    \A type \in DOMAIN rfResults :
        /\ Len(rfResults[type]) = Len(rfData)
        /\ ~TableExists => \A i \in 1..Len(rfData) : rfResults[type][i] = FALSE

\* not_match was evaluated against an absent table on two rows, the first
\* with an empty value and the second with a value
C14_Witness ==
    /\ ~TableExists
    /\ "reference_not_match" \in DOMAIN rfResults
    /\ Len(rfData) = 2
    /\ RowValueEmpty(rfData[1]) /\ ~RowValueEmpty(rfData[2])

\* C15: when the table exists and the row's value is missing or
\* whitespace-only, the result is true for not_match and false for match,
\* whatever the table and the filter hold.
C15_EmptyValue ==
    \A type \in DOMAIN rfResults :
        \A i \in 1..Len(rfData) :
            (TableExists /\ RowValueEmpty(rfData[i]))
                => (rfResults[type][i] = (type = "reference_not_match"))

\* both types were evaluated on a row without the column, against the table
\* that has rows, one of them with an empty reference value
C15_Witness ==
    /\ rfCondition.referenceFileId = "t1"
    /\ rfCondition.referenceColumn = "Code"
    /\ DOMAIN rfResults = ReferenceTypes
    /\ \E i \in 1..Len(rfData) : rfCondition.column \notin DOMAIN rfData[i]

\* equal without regard to case and to surrounding blanks
SameKey(a, b) == Trim(ToLower(a)) = Trim(ToLower(b))

\* the filter restricts the table: filterColumn and filterValue are both set
FilterSet == rfCondition.filterColumn # NoColumn /\ rfCondition.filterValue # <<>>

\* the reference row is one the condition looks at
InFilter(refRow) ==
    FilterSet =>
        /\ rfCondition.filterColumn \in DOMAIN refRow
        /\ SameKey(refRow[rfCondition.filterColumn], rfCondition.filterValue)

\* some reference row the condition looks at holds the row's value
ExistsInTable(row) ==
    \E j \in 1..Len(TableRows) :
        /\ InFilter(TableRows[j])
        /\ rfCondition.referenceColumn \in DOMAIN TableRows[j]
        /\ SameKey(TableRows[j][rfCondition.referenceColumn], row[rfCondition.column])

-----------------------------------------------------------------------------
(* Claims about group conditions, under SpecGroup *)

\* the trimmed groupBy key of a row, empty for a row without the column
TrimmedKey(row) ==
    IF gcCondition.groupBy \in DOMAIN row THEN Trim(row[gcCondition.groupBy])
    ELSE <<>>

\* all rows of the dataset with the given trimmed key, in order
HasKey(row, key) == TrimmedKey(row) = key
PartitionOf(key) ==
    [k \in 1..Len(SelectSeq(gcData, LAMBDA row : HasKey(row, key))) |->
        SelectSeq(gcData, LAMBDA row : HasKey(row, key))[k]]

\* the partition's aggregate satisfies the operator against the threshold
PartitionSatisfies(key, withinDistinct) ==
    evaluateNumericCondition(
        aggregate(PartitionOf(key),
                  [gcCondition EXCEPT !.withinDistinct = withinDistinct]),
        gcCondition.operator, gcCondition.value)

\* C17: evaluateGroupCondition returns exactly the non-empty trimmed groupBy
\* keys whose partition, all rows of the dataset with that trimmed key, has
\* an aggregate that satisfies the operator against the threshold; the empty
\* key is never in the result.
C17_MatchingKeys ==
    \A withinDistinct \in DOMAIN gcMatching :
        /\ gcMatching[withinDistinct] =
              {key \in {TrimmedKey(gcData[i]) : i \in 1..Len(gcData)} \ {<<>>} :
                  PartitionSatisfies(key, withinDistinct)}
        /\ <<>> \notin gcMatching[withinDistinct]

\* a count of at least two was met by a group one of whose keys is written
\* with a leading blank, in a dataset that also has a row with an empty key
C17_Witness ==
    /\ gcCondition.aggregationType = "count"
    /\ NoColumn \in DOMAIN gcMatching
    /\ gcMatching[NoColumn] = {S_P}
    /\ Len(gcData) = 3
    /\ \E i \in 1..3 : TrimmedKey(gcData[i]) = <<>>
    /\ \E i \in 1..3 :
          gcCondition.groupBy \in DOMAIN gcData[i] /\ gcData[i].PatientId = S_spP

\* C18: a row passes a group condition with action keep_matching_groups iff
\* its trimmed groupBy key is in the condition's matching-key set, and one
\* with action exclude_matching_groups iff it is not; a row with an empty key
\* never passes keep_matching_groups and always passes
\* exclude_matching_groups.
C18_KeepAndExclude ==
    \A action \in DOMAIN gcPassed :
        \A i \in 1..Len(gcData) :
            /\ NoColumn \in DOMAIN gcMatching =>
                  (gcPassed[action][i] =
                     IF action = "keep_matching_groups"
                     THEN TrimmedKey(gcData[i]) \in gcMatching[NoColumn]
                     ELSE TrimmedKey(gcData[i]) \notin gcMatching[NoColumn])
            /\ TrimmedKey(gcData[i]) = <<>> =>
                  (gcPassed[action][i] = (action = "exclude_matching_groups"))

\* both actions were evaluated on a dataset holding a row of a matching
\* group, a row with an empty key and a row of a group that does not match
C18_Witness ==
    /\ DOMAIN gcPassed = GroupActions
    /\ NoColumn \in DOMAIN gcMatching
    /\ Len(gcData) = 3
    /\ TrimmedKey(gcData[1]) \in gcMatching[NoColumn]
    /\ TrimmedKey(gcData[2]) = <<>>
    /\ TrimmedKey(gcData[3]) # <<>>
    /\ TrimmedKey(gcData[3]) \notin gcMatching[NoColumn]
    /\ gcPassed["keep_matching_groups"] = <<TRUE, FALSE, FALSE>>
    /\ gcPassed["exclude_matching_groups"] = <<FALSE, TRUE, TRUE>>

\* C19: for the rows of one partition and one target column, distinct_count
\* with withinDistinct set is never greater than distinct_count without it;
\* hence under a greater_than or greater_equal threshold every key matched
\* with withinDistinct is matched without it.
C19_WithinDistinctNeverMore ==
    /\ DOMAIN gcDistinct = WithinDistinctChoices =>
          \A groupKey \in DOMAIN gcDistinct[NoColumn] :
              gcDistinct["Visit"][groupKey] <= gcDistinct[NoColumn][groupKey]
    /\ (/\ DOMAIN gcMatching = WithinDistinctChoices
        /\ gcCondition.aggregationType = "distinct_count"
        /\ gcCondition.operator \in {"greater_than", "greater_equal"})
          => gcMatching["Visit"] \subseteq gcMatching[NoColumn]

\* a group has two distinct values without the constraint and one with it,
\* and is matched under at least two only without the constraint
C19_Witness ==
    /\ DOMAIN gcDistinct = WithinDistinctChoices
    /\ DOMAIN gcMatching = WithinDistinctChoices
    /\ gcCondition.operator = "greater_equal"
    /\ S_P \in DOMAIN gcDistinct[NoColumn]
    /\ gcDistinct[NoColumn][S_P] = 2
    /\ gcDistinct["Visit"][S_P] = 1
    /\ gcMatching[NoColumn] = {S_P}
    /\ gcMatching["Visit"] = {}

-----------------------------------------------------------------------------
(* The empty cell in evaluateCondition, under SpecCondition *)

\* C20: on a row whose cell in the condition's column is missing or
\* whitespace-only evaluateCondition returns a boolean: true for is_empty,
\* false for is_not_empty and false for every other operator, not_equals,
\* not_contains and not_between included, whichever way round the bounds are.
C20_EmptyCell ==
    CellIsEmpty(condRow, condProto.column) =>
        /\ \A operator \in DOMAIN condResults :
              /\ condResults[operator] \in BOOLEAN
              /\ condResults[operator] = (operator = "is_empty")
        /\ \A operator \in DOMAIN condSwapped : condSwapped[operator] = FALSE

\* is_empty and not_equals were evaluated on a whitespace-only cell
C20_Witness ==
    /\ condProto.column \in DOMAIN condRow
    /\ condRow[condProto.column] = S_blank
    /\ DOMAIN condResults = {"is_empty", "not_equals"}
    /\ condResults["is_empty"] /\ ~condResults["not_equals"]

-----------------------------------------------------------------------------
(* The group memo across the steps of a chain, under Spec *)

\* the rules of the workflow step k of the chain names
RulesOfStep(k) ==
    StoredWorkflows[FindIndexById(StoredWorkflows, chChain[k].workflowId, 1)].rules

\* the rows step k received: the initial dataset, then the previous step's
\* matched rows
InputOfStep(k) ==
    IF k = 1 THEN chInitialData.allRows
    ELSE [kind |-> "array", rows |-> chStepResults[k - 1].results.matchedRows]

\* the rows of the input the rules accept when every group condition is
\* computed, from an empty memo, over that input
AcceptedOverInput(k) ==
    filterRows(InputOfStep(k).rows, RulesOfStep(k), ReferenceFiles,
               InputOfStep(k).rows, EmptyMemo)

\* C21: every step of a chain evaluates its group conditions, from a fresh
\* memo, over the rows the step received, the previous step's matched rows,
\* and not over the initial dataset or with the key sets of an earlier step,
\* also when the steps' group conditions share an id.
C21_StepMemoIsFresh ==
    \A k \in 1..Len(chStepResults) :
        ~IsLazyLoader(InputOfStep(k))
            => chStepResults[k].results.matchedRows = AcceptedOverInput(k)

\* two steps whose group conditions share the id g1: the first keeps a group
\* of two rows, the second finds no group of one row among those two rows
C21_Witness ==
    /\ Len(chStepResults) = 2
    /\ chChain[1].workflowId = "w3" /\ chChain[2].workflowId = "w4"
    /\ chStepResults[1].outputRecords = 2
    /\ chStepResults[2].inputRecords = 2
    /\ chStepResults[2].outputRecords = 0
    /\ Len(chInitialData.allRows.rows) = 3

\* the first step of the chain whose workflow is not stored, 0 if every one is
RECURSIVE FirstMissingFrom(_, _)
FirstMissingFrom(chain, k) ==
    IF k > Len(chain) THEN 0
    ELSE IF IsStored(chain[k].workflowId) THEN FirstMissingFrom(chain, k + 1)
    ELSE k

\* every step before step k was carried out and matched at least one row
AllMatchedBefore(k) ==
    /\ Len(chStepResults) = k - 1
    /\ \A j \in 1..(k - 1) : chStepResults[j].outputRecords > 0

\* a step before step k was carried out and matched no row
SomeEmptyBefore(k) ==
    \E j \in 1..(k - 1) : j <= Len(chStepResults) /\ chStepResults[j].outputRecords = 0

\* C29: once the chain has settled, it has raised the not-found error exactly
\* when every step before the first missing workflow matched at least one
\* row; when an earlier step matched no row the chain has returned a normal
\* result, the missing workflow was never looked up and nothing is alerted
C29_MissingReportedWhenReached ==
    chOutcome.kind # "none" =>
        /\ chOutcome.kind = "rejected" <=>
              /\ FirstMissingFrom(chChain, 1) # 0
              /\ AllMatchedBefore(FirstMissingFrom(chChain, 1))
        /\ SomeEmptyBefore(FirstMissingFrom(chChain, 1)) =>
              /\ chOutcome.kind = "resolved"
              /\ \A n \in 1..Len(FindCalls) :
                    FindCalls[n].step + 1 < FirstMissingFrom(chChain, 1)
              /\ uiState.alert = None

\* a chain whose second workflow is missing, settled after its first step
\* matched no row
C29_Witness ==
    /\ chPc = "done"
    /\ chOutcome.kind = "resolved"
    /\ FirstMissingFrom(chChain, 1) = 2
    /\ Len(chStepResults) = 1
    /\ chStepResults[1].inputRecords > 0
    /\ chStepResults[1].outputRecords = 0

-----------------------------------------------------------------------------
(* The numeric aggregates, under SpecGroup *)

NumericAggregations == {"sum", "avg", "min", "max"}

\* the targetColumn values of the rows that parse as numbers, in row order
RECURSIVE ParseableNumbers(_)
ParseableNumbers(rows) ==
    IF rows = <<>> THEN <<>>
    ELSE IF /\ gcCondition.targetColumn \in DOMAIN Head(rows)
            /\ ~IsNaN(ParseFloat(Head(rows)[gcCondition.targetColumn]))
    THEN <<ParseFloat(Head(rows)[gcCondition.targetColumn]).n>>
            \o ParseableNumbers(Tail(rows))
    ELSE ParseableNumbers(Tail(rows))

RECURSIVE SumOf(_)
SumOf(numbers) == IF numbers = <<>> THEN 0 ELSE Head(numbers) + SumOf(Tail(numbers))

LeastOf(numbers) ==
    CHOOSE v \in {numbers[i] : i \in 1..Len(numbers)} :
        \A i \in 1..Len(numbers) : v <= numbers[i]
GreatestOf(numbers) ==
    CHOOSE v \in {numbers[i] : i \in 1..Len(numbers)} :
        \A i \in 1..Len(numbers) : v >= numbers[i]

\* the aggregate as a fraction: 0 when no value parses, except for the sum,
\* which is then the empty sum
ExpectedAggregate(numbers) ==
    CASE gcCondition.aggregationType = "sum" -> [num |-> SumOf(numbers), den |-> 1]
      [] numbers = <<>> -> [num |-> 0, den |-> 1]
      [] gcCondition.aggregationType = "avg" ->
            [num |-> SumOf(numbers), den |-> Len(numbers)]
      [] gcCondition.aggregationType = "min" -> [num |-> LeastOf(numbers), den |-> 1]
      [] OTHER -> [num |-> GreatestOf(numbers), den |-> 1]

\* the fraction compared with the threshold
MeetsThreshold(fraction) ==
    CASE gcCondition.operator = "equals" ->
            fraction.num = gcCondition.value * fraction.den
      [] gcCondition.operator = "not_equals" ->
            fraction.num # gcCondition.value * fraction.den
      [] gcCondition.operator = "greater_than" ->
            fraction.num > gcCondition.value * fraction.den
      [] gcCondition.operator = "less_than" ->
            fraction.num < gcCondition.value * fraction.den
      [] gcCondition.operator = "greater_equal" ->
            fraction.num >= gcCondition.value * fraction.den
      [] OTHER -> fraction.num <= gcCondition.value * fraction.den

\* C26: sum, avg, min and max use only the targetColumn values of the
\* partition that parse as numbers; avg is their sum divided by their number;
\* min, max and avg are 0 for a partition with no such value, which is tested
\* against the threshold as if its aggregate were 0.
C26_AggregatesOfParseableValues ==
    (gcCondition.aggregationType \in NumericAggregations
        /\ NoColumn \in DOMAIN gcMatching)
        => gcMatching[NoColumn] =
              {key \in {TrimmedKey(gcData[i]) : i \in 1..Len(gcData)} \ {<<>>} :
                  MeetsThreshold(ExpectedAggregate(ParseableNumbers(PartitionOf(key))))}

\* under an average of at most 7, a group whose ages are 5, 10 and a text is
\* not matched and a group whose only age is empty is matched
C26_Witness ==
    /\ gcCondition.aggregationType = "avg"
    /\ NoColumn \in DOMAIN gcMatching
    /\ gcMatching[NoColumn] = {S_Q}
    /\ Len(gcData) = 3
    /\ ParseableNumbers(PartitionOf(S_P)) = <<5, 10>>
    /\ Len(PartitionOf(S_P)) = 2


-----------------------------------------------------------------------------
(* Specification SpecGenerated: generateRules turns the parsed answer of the
   model into a RuleGroup, which the evaluator is then applied to *)

\* a JSON object: the members of whole that the answer spelled out
JsonObject(whole, members) == [f \in members |-> whole[f]]

\* validateRuleGroup accepts an object only with these three
RequiredMembers == {"id", "conditions", "logic"}
OptionalMembers == {"referenceConditions", "groupConditions", "groups", "negated", "name"}

\* a rule group with every member spelled out
WholeAnswer(id, logic, groups) ==
    [id |-> id, conditions |-> <<CodeIsA>>, referenceConditions |-> <<InRef1>>,
     groupConditions |-> <<TwoRows>>, logic |-> logic, groups |-> groups,
     negated |-> TRUE, name |-> "Generated"]

NestedAnswers ==
    {JsonObject(WholeAnswer("g", "OR", <<>>), RequiredMembers \cup o) :
        o \in {{}, {"groupConditions"}, OptionalMembers}}

\* the objects JSON.parse returns that validateRuleGroup accepts
ParsedAnswers ==
    {JsonObject(WholeAnswer("root", "AND", groups), RequiredMembers \cup o) :
        o \in SUBSET OptionalMembers,
        groups \in {<<>>} \cup {<<g>> : g \in NestedAnswers}}

\* Array.isArray(ruleGroup[member]) ? ruleGroup[member] : []
ArrayOrEmpty(ruleGroup, member) ==
    IF member \in DOMAIN ruleGroup THEN ruleGroup[member] ELSE <<>>

RECURSIVE ensureCompleteStructure(_)
ensureCompleteStructure(ruleGroup) ==
    [id |-> ruleGroup.id,
     conditions |-> ArrayOrEmpty(ruleGroup, "conditions"),
     referenceConditions |-> ArrayOrEmpty(ruleGroup, "referenceConditions"),
     logic |-> IF ruleGroup.logic \in {"AND", "OR"} THEN ruleGroup.logic ELSE "AND",
     groups |-> [i \in 1..Len(ArrayOrEmpty(ruleGroup, "groups")) |->
                    ensureCompleteStructure(ruleGroup.groups[i])],
     negated |-> IF "negated" \in DOMAIN ruleGroup THEN ruleGroup.negated ELSE FALSE,
     name |-> IF "name" \in DOMAIN ruleGroup THEN ruleGroup.name ELSE "undefined"]

\* the lists evaluateRuleGroup calls .map on
ListsRead == {"conditions", "referenceConditions", "groupConditions", "groups"}

\* evaluateRuleGroup reads x.map of each list of the group and of every group
\* below it; x.map of a member that is undefined throws a TypeError
RECURSIVE readsOnlyLists(_)
readsOnlyLists(ruleGroup) ==
    /\ ListsRead \subseteq DOMAIN ruleGroup
    /\ \A i \in 1..Len(ruleGroup.groups) : readsOnlyLists(ruleGroup.groups[i])

Returned(value) == [kind |-> "returned", value |-> value]
Threw(error) == [kind |-> "threw", error |-> error]

\* the call evaluateRuleGroup(row, ruleGroup, referenceFiles, allData) as its
\* caller sees it
evaluateRuleGroupCall(row, ruleGroup, referenceFiles, allData) ==
    IF readsOnlyLists(ruleGroup)
    THEN Returned(evaluateRuleGroup(row, ruleGroup, referenceFiles, allData,
                                    EmptyMemo).result)
    ELSE Threw("TypeError")

\* the dataset the generated rules are applied to
GeneratedData == <<RowOfLine(L_PA5), RowOfLine(L_PB10), RowOfLine(L_QA10)>>

InitGenerated ==
    /\ hostWestOfUTC = FALSE
    /\ ConditionIdle
    /\ RuleGroupIdle
    /\ EvaluationIdle
    /\ ChainIdle
    /\ ReferenceIdle
    /\ GroupIdle
    /\ BatchesIdle
    /\ aiParsed \in ParsedAnswers
    /\ aiRules = None
    /\ aiOutcome = <<>>

\* generateRules, from JSON.parse on: validateRuleGroup passes and the
\* outcome of ensureCompleteStructure is returned
GenerateRules ==
    /\ aiRules = None
    /\ aiRules' = ensureCompleteStructure(aiParsed)
    /\ UNCHANGED <<hostWestOfUTC, condVars, rgVars, evVars, chVars, rfVars, gcVars,
                   lzVars, aiParsed, aiOutcome>>

\* evaluateRuleGroup(row, rules, referenceFiles, data) for the returned rules
EvaluateGenerated(n) ==
    /\ aiRules # None
    /\ n \notin DOMAIN aiOutcome
    /\ aiOutcome' = aiOutcome @@
          (n :> evaluateRuleGroupCall(GeneratedData[n], aiRules, ReferenceFiles,
                                      GeneratedData))
    /\ UNCHANGED <<hostWestOfUTC, condVars, rgVars, evVars, chVars, rfVars, gcVars,
                   lzVars, aiParsed, aiRules>>

NextGenerated ==
    \/ GenerateRules
    \/ \E n \in DOMAIN GeneratedData : EvaluateGenerated(n)

SpecGenerated == InitGenerated /\ [][NextGenerated]_vars

\* C30: every rule group generateRules returns carries, at every depth, the
\* four lists the evaluator reads, and evaluating it on a row returns a
\* verdict instead of throwing
C30_GeneratedRulesEvaluate ==
    /\ aiRules # None => readsOnlyLists(aiRules)
    /\ \A n \in DOMAIN aiOutcome : aiOutcome[n].kind = "returned"


-----------------------------------------------------------------------------
(* Specification SpecBatches: evaluateRules batch by batch.  Two evaluations
   are called on one dataset; an evaluation runs from one await to the next
   without interruption, and while it waits for its timer the host may start
   or resume the other one. *)

\* number of rows of the dataset: enough for a pass of six lazy batches
MaxLazyRows == 11

\* the lines of a file of n rows
LinePattern == <<L_PA5, L_PB10, L_QA10>>
LinesOfLength(n) == [k \in 1..n |-> LinePattern[((k - 1) % 3) + 1]]

BatchRules ==
    {Single(<<CodeIsA>>, <<>>, <<>>),
     Single(<<>>, <<>>, <<TwoRows>>),
     Single(<<CodeIsA>>, <<>>, <<AgeSumOver10, TwoRows>>)}

\* the data argument of the evaluation
DataOf(e, loader) == IF e.path = "lazy" THEN loader ELSE ArrayOf(loader)

\* the data the rule tree is given beside the row: the array itself, and
\* nothing on the lazy path
AllDataOf(e, loader) == IF e.path = "lazy" THEN <<>> ELSE ArrayOf(loader).rows

BatchSizeOf(e) == IF e.path = "lazy" THEN LazyBatchSize ELSE ArrayBatchSize

\* the number of batches a pass over n rows of an array amounts to
BatchesIn(n) == (n + ArrayBatchSize - 1) \div ArrayBatchSize

\* the loop conditions between two batches: a finished pass stores its
\* outcome and the next loop starts at offset 0
RECURSIVE Advance(_, _, _)
Advance(e, n, conditions) ==
    IF e.pc = "pre" /\ e.k > Len(conditions)
    THEN Advance([e EXCEPT !.pc = "main", !.i = 0, !.order = <<>>], n, conditions)
    ELSE IF e.pc = "pre" /\ e.i >= n
    THEN Advance([e EXCEPT
                    !.memo = lazySetMemo(conditions[e.k],
                                [groups |-> e.groups, caches |-> EmptyCaches],
                                e.memo).memo,
                    !.groups = {}, !.k = e.k + 1, !.i = 0, !.order = <<>>],
                 n, conditions)
    ELSE IF e.pc = "main" /\ e.i >= n
    THEN IF e.path = "lazy" /\ Len(conditions) > 0
         THEN Advance([e EXCEPT !.pc = "stats", !.i = 0, !.order = <<>>], n, conditions)
         ELSE [e EXCEPT !.pc = "finish"]
    ELSE IF e.pc = "stats" /\ e.i >= n
    THEN [e EXCEPT !.pc = "finish"]
    ELSE e

\* the body of the async function up to its first loop
Entered(e, n, conditions) ==
    IF e.path = "lazy"
    THEN Advance([e EXCEPT !.pc = "pre"], n, conditions)
    ELSE IF Len(conditions) > 0 THEN [e EXCEPT !.pc = "pre"]
    ELSE [e EXCEPT !.pc = "main"]

\* an evaluation is inside a batch loop
InBatchLoop(e, n) ==
    \/ e.path = "lazy" /\ e.pc \in {"pre", "main", "stats"}
    \/ e.path = "array" /\ e.pc = "main" /\ n > LargeDataThreshold

\* a loop fetches its next batch once the batch before is dealt with
mayFetch_ahead(e) == Len(e.inflight) <= 1

mayFetch(e) == e.inflight = <<>>

\* the offset of the batch the loop fetches next
NextOffset(e) == e.i + Len(e.inflight) * BatchSizeOf(e)

\* lazyData.getBatch(i, batchSize), or data.slice(i, i + batchSize)
Fetched(e, loader, caches) ==
    IF e.path = "lazy"
    THEN getBatch(loader, caches, NextOffset(e), LazyBatchSize)
    ELSE [batch |-> SubSeq(ArrayOf(loader).rows, NextOffset(e) + 1,
                           Min(NextOffset(e) + ArrayBatchSize, LoaderLength(loader))),
          caches |-> caches]

\* the loop body after the fetch, up to the clearCache()
Evaluated(e, got, allData, conditions) ==
    IF e.path = "array"
    THEN [e |-> [e EXCEPT !.matchedRows = @ \o
                    filterRows(got.batch, e.rules, ReferenceFiles, allData, e.memo)],
          caches |-> got.caches]
    ELSE IF e.pc = "pre"
    THEN [e |-> [e EXCEPT !.groups =
                    lazyGroupStep(got, conditions[e.k], e.i, e.groups).groups],
          caches |-> LazyClear(got.caches, e.i)]
    ELSE IF e.pc = "main"
    THEN [e |-> [e EXCEPT !.matchedRows =
                    lazyBatchStep(got, e.rules, ReferenceFiles, e.memo, e.i,
                                  e.matchedRows).matchedRows],
          caches |-> LazyClear(got.caches, e.i)]
    ELSE [e |-> [e EXCEPT !.allGroups =
                    lazyStatsStep(got, conditions[1].groupBy, e.i,
                                  e.allGroups).allGroups],
          caches |-> LazyClear(got.caches, e.i)]

\* if (i % (batchSize * 4) === 0) await new Promise(resolve => setTimeout(...))
Yields(e) == e.i % (BatchSizeOf(e) * YieldEvery) = 0

\* AfterBatch whose main loop ends at the second timer it awaits
AfterBatch_endsAtTimer(e, done, n, conditions) ==
    IF Yields(e)
    THEN [done EXCEPT !.pc = "yield", !.next = e.pc,
                      !.i = IF e.pc = "main" /\ e.i > 0 THEN n ELSE e.i + BatchSizeOf(e),
                      !.inflight = Tail(e.inflight), !.sinceYield = e.sinceYield + 1]
    ELSE Advance([done EXCEPT !.i = e.i + BatchSizeOf(e),
                              !.inflight = Tail(e.inflight),
                              !.sinceYield = e.sinceYield + 1],
                 n, conditions)

\* the loop variable moves on; the function then awaits its timer or goes
\* round the loop
AfterBatch(e, done, n, conditions) ==
    IF Yields(e)
    THEN [done EXCEPT !.pc = "yield", !.next = e.pc, !.i = e.i + BatchSizeOf(e),
                      !.inflight = Tail(e.inflight), !.sinceYield = e.sinceYield + 1]
    ELSE Advance([done EXCEPT !.i = e.i + BatchSizeOf(e),
                              !.inflight = Tail(e.inflight),
                              !.sinceYield = e.sinceYield + 1],
                 n, conditions)

\* the EvaluationResult the function returns
ResultOf(e, n, conditions) ==
    IF e.path = "array" THEN EvaluationResult(e.matchedRows, n, e.stats)
    ELSE IF Len(conditions) > 0
    THEN EvaluationResult(e.matchedRows, n,
            <<lazyGroupStats(e.allGroups, AllMatchingGroups(e.memo))>>)
    ELSE EvaluationResult(e.matchedRows, n, NoGroupStats)

InitBatches ==
    /\ hostWestOfUTC = FALSE
    /\ ConditionIdle
    /\ RuleGroupIdle
    /\ EvaluationIdle
    /\ ChainIdle
    /\ ReferenceIdle
    /\ GroupIdle
    /\ GeneratedIdle
    /\ lzLoader \in {LoaderOf(LinesOfLength(n)) : n \in 0..MaxLazyRows}
    /\ lzCaches = EmptyCaches
    /\ lzEval \in
          {(1 :> NotCalled(path, rules)) @@
           (2 :> NotCalled("lazy", Single(<<>>, <<>>, <<TwoRows>>))) :
              path \in {"array", "lazy"}, rules \in BatchRules}
    /\ lzRunning = 0
    /\ lzOverlap = FALSE

Others == <<hostWestOfUTC, condVars, rgVars, evVars, chVars, rfVars, gcVars, aiVars>>

\* evaluateRules(data, rules, referenceFiles) is called: the function runs up
\* to its first loop
Call(p) ==
    /\ lzRunning = 0
    /\ lzEval[p].pc = "idle"
    /\ lzEval' = [lzEval EXCEPT ![p] =
                    Entered(lzEval[p], LoaderLength(lzLoader),
                            getAllGroupConditions(lzEval[p].rules))]
    /\ lzRunning' = p
    /\ lzOverlap' = (lzOverlap \/ \E q \in Evaluations : lzEval[q].pc \notin {"idle", "done"})
    /\ UNCHANGED <<Others, lzLoader, lzCaches>>

\* a batch loop fetches its next batch
Fetch(p) ==
    /\ lzRunning = p
    /\ InBatchLoop(lzEval[p], LoaderLength(lzLoader))
    /\ mayFetch(lzEval[p])
    /\ NextOffset(lzEval[p]) < LoaderLength(lzLoader)
    /\ \E got \in {Fetched(lzEval[p], lzLoader, lzCaches)} :
          /\ lzEval' = [lzEval EXCEPT ![p] =
                [lzEval[p] EXCEPT
                   !.inflight = Append(@, [offset |-> NextOffset(lzEval[p]),
                                           batch |-> got.batch]),
                   !.order = Append(@, NextOffset(lzEval[p]))]]
          /\ lzCaches' = got.caches
    /\ UNCHANGED <<Others, lzLoader, lzRunning, lzOverlap>>

\* the rest of the loop body: the batch is evaluated, the caches are cleared
\* every fourth batch, and the function awaits a timer right after a clear
Evaluate(p) ==
    /\ lzRunning = p
    /\ InBatchLoop(lzEval[p], LoaderLength(lzLoader))
    /\ lzEval[p].inflight # <<>>
    /\ \E e \in {lzEval[p]}, allData \in {AllDataOf(lzEval[p], lzLoader)} :
       \E out \in {Evaluated(e, [batch |-> Head(e.inflight).batch, caches |-> lzCaches],
                             allData, getAllGroupConditions(e.rules))} :
          /\ lzEval' = [lzEval EXCEPT ![p] =
                AfterBatch(e, out.e, LoaderLength(lzLoader),
                           getAllGroupConditions(e.rules))]
          /\ lzCaches' = out.caches
    /\ lzRunning' = IF Yields(lzEval[p]) THEN 0 ELSE p
    /\ UNCHANGED <<Others, lzLoader, lzOverlap>>

\* evaluateRulesArray: one group condition computed over the whole dataset
PrecomputeArray(p) ==
    /\ lzRunning = p
    /\ lzEval[p].path = "array"
    /\ lzEval[p].pc = "pre"
    /\ \E e \in {lzEval[p]}, data \in {ArrayOf(lzLoader).rows} :
          lzEval' = [lzEval EXCEPT ![p] =
             [e EXCEPT
                !.memo = ArrayPrecompute(data,
                            <<getAllGroupConditions(e.rules)[e.k]>>, e.memo),
                !.k = @ + 1,
                !.pc = IF e.k = Len(getAllGroupConditions(e.rules))
                       THEN "stats" ELSE "pre",
                !.sinceYield = @ + BatchesIn(Len(data))]]
    /\ UNCHANGED <<Others, lzLoader, lzCaches, lzRunning, lzOverlap>>

\* evaluateRulesArray: the group statistics, computed over the whole dataset
StatsArray(p) ==
    /\ lzRunning = p
    /\ lzEval[p].path = "array"
    /\ lzEval[p].pc = "stats"
    /\ \E e \in {lzEval[p]}, data \in {ArrayOf(lzLoader).rows} :
          lzEval' = [lzEval EXCEPT ![p] =
             [e EXCEPT
                !.stats = arrayGroupStats(data, getAllGroupConditions(e.rules), e.memo),
                !.pc = "main",
                !.sinceYield = @ + BatchesIn(Len(data))]]
    /\ UNCHANGED <<Others, lzLoader, lzCaches, lzRunning, lzOverlap>>

\* evaluateRulesArray at or below the threshold: data.filter(...) in one go
FilterArray(p) ==
    /\ lzRunning = p
    /\ lzEval[p].path = "array"
    /\ lzEval[p].pc = "main"
    /\ LoaderLength(lzLoader) <= LargeDataThreshold
    /\ \E e \in {lzEval[p]}, data \in {ArrayOf(lzLoader).rows} :
          lzEval' = [lzEval EXCEPT ![p] =
             [e EXCEPT
                !.matchedRows = filterRows(data, e.rules, ReferenceFiles, data, e.memo),
                !.pc = "finish",
                !.sinceYield = @ + BatchesIn(Len(data))]]
    /\ UNCHANGED <<Others, lzLoader, lzCaches, lzRunning, lzOverlap>>

\* the timer of an awaiting evaluation fires and the host resumes it
Resume(p) ==
    /\ lzRunning = 0
    /\ lzEval[p].pc = "yield"
    /\ lzEval' = [lzEval EXCEPT ![p] =
          Advance([lzEval[p] EXCEPT !.pc = lzEval[p].next, !.sinceYield = 0],
                  LoaderLength(lzLoader), getAllGroupConditions(lzEval[p].rules))]
    /\ lzRunning' = p
    /\ UNCHANGED <<Others, lzLoader, lzCaches, lzOverlap>>

\* the function returns its EvaluationResult
Return(p) ==
    /\ lzRunning = p
    /\ lzEval[p].pc = "finish"
    /\ lzEval' = [lzEval EXCEPT ![p] =
          [lzEval[p] EXCEPT
             !.result = ResultOf(lzEval[p], LoaderLength(lzLoader),
                                 getAllGroupConditions(lzEval[p].rules)),
             !.pc = "done"]]
    /\ lzRunning' = 0
    /\ UNCHANGED <<Others, lzLoader, lzCaches, lzOverlap>>

NextBatches ==
    \E p \in Evaluations :
        \/ Call(p)
        \/ Fetch(p)
        \/ Evaluate(p)
        \/ PrecomputeArray(p)
        \/ StatsArray(p)
        \/ FilterArray(p)
        \/ Resume(p)
        \/ Return(p)

SpecBatches == InitBatches /\ [][NextBatches]_vars


-----------------------------------------------------------------------------
(* Claims about the batches of evaluateRules, under SpecBatches *)

\* C22: the batch cache of the loader never holds more than four batches and
\* its row cache never more than four batches' rows
C22_CachesHoldFourBatches ==
    /\ Cardinality(DOMAIN lzCaches.batchCache) <= YieldEvery
    /\ Cardinality(DOMAIN lzCaches.cache) <= YieldEvery * LazyBatchSize

\* the first m rows of the dataset, as the evaluation reads them
FirstRows(e, loader, m) ==
    SubSeq(ArrayOf(loader).rows, 1, Min(m, LoaderLength(loader)))

InMainLoop(e) == e.pc = "main" \/ (e.pc = "yield" /\ e.next = "main")

\* C23: in every pass of an evaluation the batches are fetched in index
\* order, a batch is fetched only when the batch before it has been evaluated,
\* at most one batch is held at a time and none while the function awaits its
\* timer, and in the main pass the matches so far are those of the batches
\* before the current offset
C23_BatchesInOrder ==
    \A p \in Evaluations :
        /\ Len(lzEval[p].inflight) <= 1
        /\ \A j \in 1..Len(lzEval[p].order) :
              lzEval[p].order[j] = (j - 1) * BatchSizeOf(lzEval[p])
        /\ lzEval[p].inflight = <<>> =>
              lzEval[p].i = Len(lzEval[p].order) * BatchSizeOf(lzEval[p])
        /\ lzEval[p].inflight # <<>> =>
              /\ lzRunning = p
              /\ Head(lzEval[p].inflight).offset = lzEval[p].i
              /\ lzEval[p].i = (Len(lzEval[p].order) - 1) * BatchSizeOf(lzEval[p])
        /\ (InMainLoop(lzEval[p]) /\ InBatchLoop([lzEval[p] EXCEPT !.pc = "main"],
                                                 LoaderLength(lzLoader))) =>
              lzEval[p].matchedRows =
                 filterRows(FirstRows(lzEval[p], lzLoader, lzEval[p].i),
                            lzEval[p].rules, ReferenceFiles,
                            AllDataOf(lzEval[p], lzLoader), lzEval[p].memo)

\* an evaluation awaits its timer in the middle of its main pass while the
\* other one holds the third batch of its own main pass
C23_Witness ==
    /\ lzEval[1].pc = "yield" /\ lzEval[1].next = "main"
    /\ lzEval[1].i = YieldEvery * BatchSizeOf(lzEval[1]) + BatchSizeOf(lzEval[1])
    /\ lzEval[1].matchedRows # <<>>
    /\ lzRunning = 2
    /\ lzEval[2].pc = "main"
    /\ lzEval[2].inflight # <<>>
    /\ Len(lzEval[2].order) = 3
    /\ lzEval[2].matchedRows # <<>>

\* C24: between two timers an evaluation never evaluates more than four
\* batches; a pass over a whole array counts as the batches its rows fill
C24_FourBatchesBetweenYields ==
    \A p \in Evaluations : lzEval[p].sinceYield <= YieldEvery

\* C28: an evaluation that has returned has returned the EvaluationResult
\* the same call returns on a loader nothing else uses
C28_SameResultAsAlone ==
    \A p \in Evaluations :
        lzEval[p].pc = "done" =>
            lzEval[p].result =
                evaluateRules(DataOf(lzEval[p], lzLoader), EmptyCaches,
                              lzEval[p].rules, ReferenceFiles).result

\* both evaluations ran on the loader with their loops interleaved, and both
\* have returned rows
C28_Witness ==
    /\ lzOverlap
    /\ LoaderLength(lzLoader) = MaxLazyRows
    /\ \A p \in Evaluations :
          /\ lzEval[p].path = "lazy"
          /\ lzEval[p].pc = "done"
          /\ lzEval[p].result.matchedCount > 0


-----------------------------------------------------------------------------
(* Specification SpecTermination: a chain execution, or two evaluateRules
   calls, under a host that keeps the program running.  JavaScript runs a
   function to its next await, every timer an evaluation awaits fires, and the
   host then resumes the function; nothing obliges the user to call an
   evaluation. *)

\* the workflows the chains of this specification refer to
TerminationIds == {"w1", "w3", "gone"}

\* the chains run on the files LinesOfLength gives, and the evaluations on
\* the empty file and on the longest one
InitTermination ==
    \/ /\ Init
       /\ \A k \in 1..Len(chChain) : chChain[k].workflowId \in TerminationIds
       /\ chInitialData \in
             {CSVDataOf(LoaderOf(LinesOfLength(n)), kind) :
                 n \in 0..MaxChainRows, kind \in {"array", "lazy"}}
    \/ /\ InitBatches
       /\ LoaderLength(lzLoader) \in {0, MaxLazyRows}

NextTermination == Next \/ NextBatches

\* the steps of an evaluation that need no timer
Runs(p) ==
    \/ Fetch(p)
    \/ Evaluate(p)
    \/ PrecomputeArray(p)
    \/ StatsArray(p)
    \/ FilterArray(p)
    \/ Return(p)

SpecTermination ==
    /\ InitTermination
    /\ [][NextTermination]_vars
    /\ WF_vars(Next)
    /\ \A p \in Evaluations : WF_vars(Runs(p)) /\ WF_vars(Resume(p))

Called(p) == lzEval[p].pc \notin {"absent", "idle"}

\* the evaluation has returned, and its result covers the whole dataset: the
\* matched rows are the rows the rule tree accepts among all rows
ReturnedWhole(p) ==
    /\ lzEval[p].pc = "done"
    /\ lzEval[p].result.totalRows = LoaderLength(lzLoader)
    /\ lzEval[p].result.matchedCount = Len(lzEval[p].result.matchedRows)
    /\ lzEval[p].result.matchedRows =
          filterRows(ArrayOf(lzLoader).rows, lzEval[p].rules, ReferenceFiles,
                     AllDataOf(lzEval[p], lzLoader), lzEval[p].memo)

ChainRunning == chPc \in {"loop", "finish", "returned", "thrown"}

\* the chain has settled: it raised its error, or it returned the results of
\* every step up to its last one or up to the step that matched no row, each
\* of them over the whole input of the step
ChainSettledWhole ==
    /\ chPc = "done"
    /\ chOutcome.kind \in {"resolved", "rejected"}
    /\ chOutcome.kind = "resolved" =>
          /\ \/ Len(chOutcome.steps) = Len(chChain)
             \/ chOutcome.steps[Len(chOutcome.steps)].outputRecords = 0
          /\ \A j \in 1..Len(chOutcome.steps) :
                /\ chOutcome.steps[j].results.totalRows = chOutcome.steps[j].inputRecords
                /\ j < Len(chOutcome.steps) => chOutcome.steps[j].outputRecords > 0

\* C25: every evaluation that is called returns, and every chain execution
\* settles; what an evaluation returns covers the whole dataset, and a chain
\* ends with its error or with the results of all the steps it had to run
C25_CompletesWithWholeResult ==
    /\ \A p \in Evaluations : Called(p) ~> ReturnedWhole(p)
    /\ ChainRunning ~> ChainSettledWhole
    /\ [](\A p \in Evaluations : lzEval[p].pc = "done" => ReturnedWhole(p))
    /\ []((chPc = "done" /\ chOutcome.kind # "none") => ChainSettledWhole)

\* two lazy evaluations of the longest dataset, interleaved, have both returned
C25_Witness ==
    /\ lzOverlap
    /\ LoaderLength(lzLoader) = MaxLazyRows
    /\ \A p \in Evaluations : ReturnedWhole(p) /\ lzEval[p].result.matchedCount >= 2
    /\ lzEval[1].path = "lazy"

====
